---- MODULE Spec2Model ----
(***************************************************************************)
(* A TLA+ model of the core kernel services of JOS: the thread scheduler   *)
(* with conditions and recursive locks (sys/thread.c), the block cache     *)
(* (sys/cache.c), the KTFS filesystem (sys/ktfs.c), pipes (sys/io.c), the  *)
(* address-space manager and the physical page allocator (sys/memory.c),   *)
(* and the system calls of a process (sys/syscall.c).                      *)
(*                                                                         *)
(* Each subsystem has its own variables, initial predicate, next-state     *)
(* relation and specification (SpecThread, SpecCache, ...).  A             *)
(* specification leaves the variables of the other subsystems at their     *)
(* initial values.                                                         *)
(***************************************************************************)
EXTENDS Integers, Sequences, FiniteSets, TLC

\* ======================================================================
\* Generic helpers
\* ======================================================================

NULL == -1

\* ======================================================================
\* THREADS, CONDITIONS, LOCKS                                (sys/thread.c)
\* ======================================================================

\* Number of thread slots.  Slot 0 is main, slot NTHR-1 is idle; the source
\* is built with 16 slots, the model keeps main, idle and NTHR-2 workers.
NTHR == 4

\* Number of lock objects shared by the threads.
NLOCK == 2

\* Largest recursion count a thread drives a lock to.
MaxLockCnt == 2

\* Number of kernel calls the threads make in a run; in a run with one lock
\* and no thread_yield; in a run with one lock, no thread_yield and no
\* thread_join.
MaxCalls == 6
MaxDeepCalls == 7
MaxExitCalls == 8

\* Number of kernel calls entered when running_thread_suspend is followed
\* through its two halves.
MaxSchedCalls == 4

MAIN_TID == 0
IDLE_TID == NTHR - 1

Tid == 0 .. (NTHR - 1)
LockId == 1 .. NLOCK

VARIABLES
    thr_state,      \* thrtab[t]->state; "NONE" when thrtab[t] == NULL
    thr_parent,     \* thrtab[t]->parent
    thr_list_next,  \* thrtab[t]->list_next
    thr_lock_list,  \* thrtab[t]->lock_list (head of the owned-lock list)
    thr_ie,         \* interrupt-enable bit of the thread's context (sstatus.SIE)
    thr_pc,         \* where the thread is inside the kernel call it is making
    thr_loc,        \* the call's local variables
    TP,             \* the running thread (tp register)
    ready_list,     \* [head, tail]
    child_exit,     \* thrtab[t]->child_exit.wait_list : [head, tail]
    lock_owner,     \* lock->owner
    lock_cnt,       \* lock->cnt
    lock_next,      \* lock->next
    lock_released,  \* lock->released.wait_list : [head, tail]
    halted,         \* "no", or why the machine stopped: halt, fault, hang
    ncalls,         \* number of kernel calls made so far (bounded by MaxCalls)
    held            \* history: lock_acquire returns minus lock_release calls

thrVars == << thr_state, thr_parent, thr_list_next, thr_lock_list, thr_ie,
              thr_pc, thr_loc, TP, ready_list, child_exit, lock_owner,
              lock_cnt, lock_next, lock_released, halted, held,
              ncalls >>

\* ---- state of the block cache (sys/cache.c) ----

VARIABLES
    backend,        \* the backing device: block -> offset -> byte
    cache_table,    \* cache->table[i] : [block_id, flags]
    cache_data,     \* cache_data[i] : offset -> byte
    clock_idx,      \* cache->clock_idx
    last_read_idx,  \* cache->last_read_idx
    cache_ret,      \* the last cache call: [op, pos, data, hit]
    shadow,         \* history: the byte array the device is meant to hold
    cache_locks,    \* cache_locks[i].owner : a calling thread, or NoOwner
    cache_cur,      \* the thread that is running cache code
    cache_pc,       \* per calling thread: where it is inside its cache call
    cache_loc,      \* per calling thread: the locals of its cache call
    cache_calls     \* history: the number of cache calls entered by threads

cacheThrVars == << cache_locks, cache_cur, cache_pc, cache_loc, cache_calls >>

cacheVars == << backend, cache_table, cache_data, clock_idx, last_read_idx,
                cache_ret, shadow, cacheThrVars >>

\* ---- state of the KTFS filesystem (sys/ktfs.c) ----

VARIABLES
    ktfs_disk,      \* the volume: [bitmap, inode, data]
    inode_bitmap,   \* fs->inode_bitmap (in memory)
    open_files,     \* the open_files list, head first: [name, inode, file_size]
    ktfs_ret,       \* the last filesystem call and its result
    ktfs_calls,     \* number of filesystem calls made so far
    ktfs_shadow,    \* history: inode -> the bytes the file is meant to hold
    ktfs_ext,       \* history: per inode, "no" SETEND has grown the file,
                    \* "yes" one has and none failed, or one "failed"
    ktfs_seq        \* history: progress of a create / SETEND / delete sequence

ktfsVars == << ktfs_disk, inode_bitmap, open_files, ktfs_ret, ktfs_calls,
               ktfs_shadow, ktfs_ext, ktfs_seq >>

\* ---- state of a pipe and of the threads using it (sys/io.c) ----

VARIABLES
    pipe_st,        \* "none" before create_pipe, "open", "freed" after kfree
    pipe_buf,       \* pipe->buf : index -> byte
    hpos,           \* pipe->hpos
    tpos,           \* pipe->tpos
    pipe_ref,       \* [wio |-> pipe->wio.refcnt, rio |-> pipe->rio.refcnt]
    pp_pc,          \* per thread: "idle", or where it is in pipe_read / pipe_write
    pp_loc,         \* per thread: locals of the call in progress
    pipe_ret,       \* the call that returned last
    pipe_written,   \* history: bytes put into the ring, in order
    pipe_delivered, \* history: bytes returned by reads, in order
    pipe_calls      \* calls made so far

pipeVars == << pipe_st, pipe_buf, hpos, tpos, pipe_ref, pp_pc, pp_loc, pipe_ret,
               pipe_written, pipe_delivered, pipe_calls >>

\* ---- state of physical memory and of the address spaces (sys/memory.c) ----

VARIABLES
    phys_mem,        \* RAM: page number -> index -> 64-bit word
    free_chunk_list, \* the free chunk list, head first: [pp, pagecnt]
    satp,            \* the active space: page number of its root table
    mem_clone,       \* root table of the space clone_active_mspace made
    mem_view,        \* per space and user page: what its user expects to read
    mem_out,         \* allocations handed out and not yet freed: [pp, cnt]
    mem_ret,         \* the last memory call and its result
    mem_st,          \* "run", or "panic" after panic()
    mem_calls        \* number of memory calls made

memVars == << phys_mem, free_chunk_list, satp, mem_clone, mem_view, mem_out,
              mem_ret, mem_st, mem_calls >>

\* What an action of one subsystem leaves alone.
\* ---- state of the system calls (sys/syscall.c) ----

VARIABLES
    iotab,          \* current_process()->iotab[fd]; NoIo for NULL
    sys_ret,        \* the last system call: its arguments and what it did
    sys_st,         \* "run", "exec" (the image was replaced) or "fault"
    sys_calls       \* number of system calls made so far

sysVars == << iotab, sys_ret, sys_st, sys_calls >>

\* ---- state of the I/O objects and their reference counts (sys/io.c) ----

VARIABLES
    io_kind,        \* per object: "none", "mem", "file" or "seek" (its iointf)
    io_refcnt,      \* io->refcnt
    io_bkgio,       \* sio->bkgio of a seekable wrapper, NULL otherwise
    io_held,        \* references the callers hold and have not yet closed
    io_log,         \* per object: initial count, calls of ioaddref and of
                    \* ioclose on it, runs of its close function
    io_st,          \* "run", or "panic" after a failed assert
    io_calls        \* number of calls made so far

ioVars == << io_kind, io_refcnt, io_bkgio, io_held, io_log, io_st, io_calls >>

\* ---- state of the processes and of their threads (sys/process.c) ----

VARIABLES
    proctab,        \* proctab[pn]: "NULL", "live", or "freed" (a pointer to a
                    \* record that was given to kfree)
    pr_thr,         \* thrtab[t]->state; "NONE" when thrtab[t] == NULL
    pr_parent,      \* thrtab[t]->parent
    pr_proc,        \* thrtab[t]->proc: index of the process record, or NULL
    pr_pc,          \* where the thread is: "user", or inside fork or wait
    pr_loc,         \* locals of the call, and a0 of the thread's trap frame
    pr_run,         \* the running thread
    pr_ready,       \* the ready list, head first
    pr_ret,         \* the last call that returned, and its result
    pr_calls        \* number of system calls made so far

procVars == << proctab, pr_thr, pr_parent, pr_proc, pr_pc, pr_loc, pr_run,
               pr_ready, pr_ret, pr_calls >>

\* ---- state of the timer and of the alarms (sys/timer.c) ----

VARIABLES
    tm_now,         \* rdtime()
    sleep_list,     \* the alarms on sleep_list, head first (one per thread)
    al_twake,       \* al->twake of the alarm of each thread
    al_st,          \* per thread: "run", "armed" (alarm inserted, before
                    \* condition_wait), "sleeping" or "ready"
    stcmp,          \* the time compare register set by set_stcmp
    stie,           \* sie.STIE: timer interrupts enabled
    tm_ret,         \* the last step of the timer code and what it did
    tm_calls        \* number of calls of alarm_sleep made so far

timerVars == << tm_now, sleep_list, al_twake, al_st, stcmp, stie, tm_ret, tm_calls >>

\* ---- results of the backend during a cache call (sys/cache.c) ----

VARIABLES
    cache_io        \* the last cache call made on a backend that can fail:
                    \* what it returned and which transfers failed

cacheIoVars == << cache_io >>

\* ---- state of the seekable endpoint of an open file (sys/io.c) ----

VARIABLES
    sio_pos,        \* per file name: sio->pos of the seekable endpoint made
                    \* by fsopen (sio->end is the end field of the handle)
    seek_ret        \* the last call on a seekable endpoint: its result, and
                    \* pos and end before it

seekVars == << sio_pos, seek_ret >>

\* ---- state of a memory-backed endpoint (sys/io.c) ----

VARIABLES
    mio_size,       \* mio->size
    mio_buf,        \* the bytes of mio->buf
    mio_ret         \* the last call on the endpoint and its result

memioVars == << mio_size, mio_buf, mio_ret >>

\* ---- running_thread_suspend between its dequeue and its switch (sys/thread.c) ----

VARIABLES
    rts_next,       \* per thread: next_thread of its running_thread_suspend
                    \* while it is between tlremove and _thread_swtch
    rts_cont        \* per thread: where it continues after that switch

schedVars == << rts_next, rts_cont >>

\* ---- the records of the open files, one per ktfs_open (sys/ktfs.c) ----

VARIABLES
    hd_list,        \* the open_files list, head first: the records linked in it
    hd_st,          \* per record: "none" (not allocated), "open" or "freed"
    hd_name,        \* per record: entry.name
    hd_closed,      \* per record: the caller has closed the endpoint made on it
    hd_uaf,         \* the records that were used after kfree
    hd_ret,         \* the last call and what it did
    hd_calls        \* number of calls made so far

handleVars == << hd_list, hd_st, hd_name, hd_closed, hd_uaf, hd_ret, hd_calls >>

\* ---- the descriptor tables of the processes (sys/process.c, sys/syscall.c) ----

VARIABLES
    fd_tab,         \* per process: iotab[fd], an I/O object or NULL
    fd_live,        \* per process: it exists
    fd_ret,         \* the last system call and what it did
    fd_calls        \* number of system calls made so far

fdVars == << fd_tab, fd_live, fd_ret, fd_calls >>

\* The subsystems added after the first six.
auxVars ==
    << ioVars, procVars, timerVars, cacheIoVars, seekVars, memioVars, schedVars,
       handleVars, fdVars >>

ThreadFrame ==
    /\ ncalls' <= MaxCalls
    /\ UNCHANGED << cacheVars, ktfsVars, pipeVars, memVars, sysVars, auxVars >>
DeepFrame ==
    /\ ncalls' <= MaxDeepCalls
    /\ UNCHANGED << cacheVars, ktfsVars, pipeVars, memVars, sysVars, auxVars >>
ExitFrame == UNCHANGED << cacheVars, ktfsVars, pipeVars, memVars, sysVars, auxVars >>
CacheFrame == UNCHANGED << thrVars, ktfsVars, pipeVars, memVars, sysVars, auxVars >>
KtfsFrame == UNCHANGED << thrVars, cacheVars, pipeVars, memVars, sysVars, auxVars >>
PipeFrame == UNCHANGED << thrVars, cacheVars, ktfsVars, memVars, sysVars, auxVars >>
MemFrame == UNCHANGED << thrVars, cacheVars, ktfsVars, pipeVars, sysVars, auxVars >>
SysFrame == UNCHANGED << thrVars, cacheVars, ktfsVars, pipeVars, memVars, auxVars >>
BaseFrame == UNCHANGED << thrVars, cacheVars, ktfsVars, pipeVars, memVars, sysVars >>
IoFrame ==
    BaseFrame /\ UNCHANGED << procVars, timerVars, cacheIoVars, seekVars, memioVars, schedVars, handleVars,
                 fdVars >>
ProcFrame ==
    BaseFrame /\ UNCHANGED << ioVars, timerVars, cacheIoVars, seekVars, memioVars, schedVars, handleVars,
                 fdVars >>
TimerFrame ==
    BaseFrame /\ UNCHANGED << ioVars, procVars, cacheIoVars, seekVars, memioVars, schedVars, handleVars,
                 fdVars >>
CacheIoFrame ==
    UNCHANGED << thrVars, cacheThrVars, ktfsVars, pipeVars, memVars, sysVars,
                 ioVars, procVars, timerVars, seekVars, memioVars, schedVars, handleVars,
                 fdVars >>
SeekFrame ==
    UNCHANGED << thrVars, cacheVars, pipeVars, memVars, sysVars,
                 ioVars, procVars, timerVars, cacheIoVars, memioVars, schedVars, handleVars,
                 fdVars >>
MemioFrame ==
    BaseFrame /\ UNCHANGED << ioVars, procVars, timerVars, cacheIoVars, seekVars, schedVars,
                            handleVars, fdVars >>
SchedFrame ==
    /\ ncalls' <= MaxSchedCalls
    /\ UNCHANGED << cacheVars, ktfsVars, pipeVars, memVars, sysVars,
                    ioVars, procVars, timerVars, cacheIoVars, seekVars, memioVars,
                    handleVars, fdVars >>
HandleFrame ==
    UNCHANGED << thrVars, cacheVars, ktfsVars, pipeVars, memVars, sysVars,
                 ioVars, procVars, timerVars, cacheIoVars, seekVars, memioVars,
                 schedVars, fdVars >>
FdFrame ==
    BaseFrame /\ UNCHANGED << procVars, timerVars, cacheIoVars, seekVars, memioVars,
                              schedVars, handleVars >>

vars == << thrVars, cacheVars, ktfsVars, pipeVars, memVars, sysVars, auxVars >>

EmptyList == [head |-> NULL, tail |-> NULL]

NoLoc == [lock |-> NULL, tid |-> NULL, cont |-> "run", cond |-> << "none", NULL >>,
          pie |-> TRUE, head |-> NULL, ret |-> [err |-> "none", val |-> NULL]]

\* ---- thread lists (intrusive, through list_next) ----

\* tlclear
tlclear == EmptyList

\* tlinsert: returns the list and the list_next map after the insert
tlinsert(list, nx, thr) ==
    LET nx1 == [nx EXCEPT ![thr] = NULL]
    IN  IF list.tail # NULL
        THEN [list |-> [list EXCEPT !.tail = thr],
              nx   |-> [nx1 EXCEPT ![list.tail] = thr]]
        ELSE [list |-> [head |-> thr, tail |-> thr], nx |-> nx1]

\* tlremove: returns the removed thread (NULL if none), the list and list_next
tlremove(list, nx) ==
    LET thr == list.head
    IN  IF thr = NULL
        THEN [thr |-> NULL, list |-> list, nx |-> nx]
        ELSE LET h == nx[thr]
             IN [thr  |-> thr,
                 list |-> IF h # NULL THEN [list EXCEPT !.head = h] ELSE EmptyList,
                 nx   |-> [nx EXCEPT ![thr] = NULL]]

\* tlappend: appends l1 to l0; returns the new l0 and list_next (l1 is cleared by
\* the caller's tlclear)
tlappend(l0, l1, nx) ==
    IF l0.head # NULL
    THEN IF l1.head # NULL
         THEN [list |-> [l0 EXCEPT !.tail = l1.tail],
               nx   |-> [nx EXCEPT ![l0.tail] = l1.head]]
         ELSE [list |-> l0, nx |-> nx]
    ELSE [list |-> l1, nx |-> nx]

\* The threads linked from h through list_next (the walk of condition_broadcast).
RECURSIVE ChainFrom(_, _, _)
ChainFrom(h, nx, seen) ==
    IF h = NULL \/ h \in seen THEN seen
    ELSE ChainFrom(nx[h], nx, seen \cup {h})

Chain(list, nx) == ChainFrom(list.head, nx, {})

\* ---- conditions ----

\* A condition is named by a pair: <<"child_exit", tid>> or <<"released", lock>>.
CondList(c) ==
    IF c[1] = "child_exit" THEN child_exit[c[2]] ELSE lock_released[c[2]]

\* condition_broadcast on the wait list wl, from the point where interrupts
\* are disabled: head is what the caller read from wl.head on entry, with
\* interrupts as they were.  The threads linked from head are made READY,
\* wl is appended to the ready list and cleared; nothing happens when head
\* is NULL.  The result is the new thread states, ready list, list_next and
\* wait list.
condition_broadcast(head, wl, st, rl, nx) ==
    IF head = NULL
    THEN [st |-> st, rl |-> rl, nx |-> nx, wl |-> wl]
    ELSE LET woken == ChainFrom(head, nx, {})
             ap == tlappend(rl, wl, nx)
         IN [st |-> [t \in Tid |-> IF t \in woken THEN "READY" ELSE st[t]],
             rl |-> ap.list,
             nx |-> ap.nx,
             wl |-> tlclear]

\* ---- the scheduler ----

\* running_thread_suspend by thread t with thread states st: the caller is put
\* back on the ready list if it is still RUNNING, the head of the ready list
\* becomes the running thread.  An empty ready list yields a null next thread,
\* which the code dereferences.
running_thread_suspend(t, st, rl, nx) ==
    LET ins == IF st[t] = "RUNNING" THEN tlinsert(rl, nx, t)
               ELSE [list |-> rl, nx |-> nx]
        st1 == IF st[t] = "RUNNING" THEN [st EXCEPT ![t] = "READY"] ELSE st
        rem == tlremove(ins.list, ins.nx)
    IN  [next |-> rem.thr,
         st   |-> IF rem.thr = NULL THEN st1 ELSE [st1 EXCEPT ![rem.thr] = "RUNNING"],
         rl   |-> rem.list,
         nx   |-> rem.nx]

\* The effect of a suspend on the scheduler variables, shared by every action
\* that ends in running_thread_suspend.
Suspend(t, st, rl, nx) ==
    LET s == running_thread_suspend(t, st, rl, nx)
    IN  /\ thr_state' = s.st
        /\ ready_list' = s.rl
        /\ thr_list_next' = s.nx
        /\ IF s.next = NULL
           THEN /\ halted' = "fault"
                /\ TP' = TP
           ELSE /\ halted' = halted
                /\ TP' = s.next

\* A thread enters a kernel call: one more call is counted.
Call == /\ ncalls < MaxExitCalls
        /\ ncalls' = ncalls + 1

AtRun(t) == /\ halted = "no"
            /\ TP = t
            /\ thr_state[t] = "RUNNING"
            /\ thr_pc[t] = "run"

At(t, pc) == /\ halted = "no"
             /\ TP = t
             /\ thr_state[t] \in {"RUNNING", "WAITING"}
             /\ thr_pc[t] = pc

Worker(t) == t # IDLE_TID

ThreadInit ==
    /\ thr_state = [t \in Tid |-> IF t = MAIN_TID THEN "RUNNING"
                                  ELSE IF t = IDLE_TID THEN "READY" ELSE "NONE"]
    /\ thr_parent = [t \in Tid |-> IF t = IDLE_TID THEN MAIN_TID ELSE NULL]
    /\ thr_list_next = [t \in Tid |-> NULL]
    /\ thr_lock_list = [t \in Tid |-> NULL]
    /\ thr_ie = [t \in Tid |-> TRUE]
    /\ thr_pc = [t \in Tid |-> "run"]
    /\ thr_loc = [t \in Tid |-> NoLoc]
    /\ TP = MAIN_TID
    /\ ready_list = [head |-> IDLE_TID, tail |-> IDLE_TID]
    /\ child_exit = [t \in Tid |-> EmptyList]
    /\ lock_owner = [l \in LockId |-> NULL]
    /\ lock_cnt = [l \in LockId |-> 0]
    /\ lock_next = [l \in LockId |-> NULL]
    /\ lock_released = [l \in LockId |-> EmptyList]
    /\ halted = "no"
    /\ ncalls = 0
    /\ held = [l \in LockId |-> [t \in Tid |-> 0]]

\* Return values: a thread id, or an error named as in the source.
RetVal(v) == [err |-> "none", val |-> v]
RetErr(e) == [err |-> e, val |-> NULL]

\* ---- thread_spawn / create_thread ----

FreeSlots == { c \in 1 .. (NTHR - 1) : thr_state[c] = "NONE" }

\* create_thread takes the lowest free slot in 1..NTHR-1; thread_spawn marks the
\* child READY, initialises its child_exit condition and puts it on the ready
\* list.  The child starts in _thread_startup with interrupts enabled.
thread_spawn(t) ==
    /\ AtRun(t)
    /\ Call
    /\ Worker(t)
    /\ IF FreeSlots = {}
       THEN /\ thr_loc' = [thr_loc EXCEPT ![t].ret = RetErr("EMTHR")]
            /\ UNCHANGED << thr_state, thr_parent, thr_list_next, thr_lock_list,
                            thr_ie, thr_pc, ready_list, child_exit, held >>
       ELSE LET c == CHOOSE x \in FreeSlots : \A y \in FreeSlots : x <= y
                ins == tlinsert(ready_list, thr_list_next, c)
            IN  /\ thr_state' = [thr_state EXCEPT ![c] = "READY"]
                /\ thr_parent' = [thr_parent EXCEPT ![c] = t]
                /\ thr_lock_list' = [thr_lock_list EXCEPT ![c] = NULL]
                /\ thr_ie' = [thr_ie EXCEPT ![c] = TRUE]
                /\ thr_pc' = [thr_pc EXCEPT ![c] = "run"]
                /\ thr_loc' = [thr_loc EXCEPT ![c] = NoLoc, ![t].ret = RetVal(c)]
                /\ child_exit' = [child_exit EXCEPT ![c] = tlclear]
                /\ ready_list' = ins.list
                /\ thr_list_next' = ins.nx
                /\ held' = [l \in LockId |-> [held[l] EXCEPT ![c] = 0]]
    /\ UNCHANGED << TP, lock_owner, lock_cnt, lock_next, lock_released, halted >>

\* ---- thread_yield ----

thread_yield(t) ==
    /\ AtRun(t)
    /\ Call
    /\ Worker(t)
    /\ Suspend(t, thr_state, ready_list, thr_list_next)
    /\ UNCHANGED << thr_parent, thr_lock_list, thr_ie, thr_pc, thr_loc, child_exit,
                    lock_owner, lock_cnt, lock_next, lock_released, held >>

\* idle_thread_func: yields while the ready list is not empty, otherwise waits
\* for an interrupt.
idle_thread_func ==
    /\ UNCHANGED ncalls
    /\ AtRun(IDLE_TID)
    /\ ready_list.head # NULL
    /\ Suspend(IDLE_TID, thr_state, ready_list, thr_list_next)
    /\ UNCHANGED << thr_parent, thr_lock_list, thr_ie, thr_pc, thr_loc, child_exit,
                    lock_owner, lock_cnt, lock_next, lock_released, held >>

\* ---- condition_wait ----

\* condition_wait, first half: the caller is marked WAITING.  Interrupts are
\* whatever the caller left them.
condition_wait_mark(t) ==
    /\ UNCHANGED ncalls
    /\ At(t, "cw_mark")
    /\ thr_state[t] = "RUNNING"
    /\ thr_state' = [thr_state EXCEPT ![t] = "WAITING"]
    /\ thr_list_next' = [thr_list_next EXCEPT ![t] = NULL]
    /\ thr_pc' = [thr_pc EXCEPT ![t] = "cw_link"]
    /\ UNCHANGED << thr_parent, thr_lock_list, thr_ie, thr_loc, TP, ready_list,
                    child_exit, lock_owner, lock_cnt, lock_next, lock_released,
                    halted, held >>

\* condition_wait, second half: with interrupts disabled the caller is linked
\* into the wait list, then running_thread_suspend switches away.
condition_wait_link(t) ==
    /\ UNCHANGED ncalls
    /\ At(t, "cw_link")
    /\ LET c == thr_loc[t].cond
           ins == tlinsert(CondList(c), thr_list_next, t)
       IN  /\ IF c[1] = "child_exit"
              THEN /\ child_exit' = [child_exit EXCEPT ![c[2]] = ins.list]
                   /\ UNCHANGED lock_released
              ELSE /\ lock_released' = [lock_released EXCEPT ![c[2]] = ins.list]
                   /\ UNCHANGED child_exit
           /\ Suspend(t, thr_state, ready_list, ins.nx)
    /\ thr_pc' = [thr_pc EXCEPT ![t] = thr_loc[t].cont]
    /\ UNCHANGED << thr_parent, thr_lock_list, thr_ie, thr_loc, lock_owner, lock_cnt,
                    lock_next, held >>

\* ---- lock_acquire ----

\* lock_acquire, entry: the owner only increments the count; any other caller
\* disables interrupts and goes to the wait loop.
lock_acquire(t, l) ==
    /\ AtRun(t)
    /\ Call
    /\ Worker(t)
    /\ IF lock_owner[l] = t
       THEN /\ lock_cnt[l] < MaxLockCnt
            /\ lock_cnt' = [lock_cnt EXCEPT ![l] = @ + 1]
            /\ held' = [held EXCEPT ![l][t] = @ + 1]
            /\ UNCHANGED << thr_ie, thr_pc, thr_loc >>
       ELSE /\ thr_ie' = [thr_ie EXCEPT ![t] = FALSE]
            /\ thr_pc' = [thr_pc EXCEPT ![t] = "la_wait"]
            /\ thr_loc' = [thr_loc EXCEPT ![t].lock = l, ![t].pie = thr_ie[t]]
            /\ UNCHANGED << lock_cnt, held >>
    /\ UNCHANGED << thr_state, thr_parent, thr_list_next, thr_lock_list, TP,
                    ready_list, child_exit, lock_owner, lock_next, lock_released,
                    halted >>

\* lock_acquire, the loop "while (lock->owner != NULL) condition_wait(...)" and
\* the restore_interrupts that follows it.
lock_acquire_wait(t) ==
    /\ UNCHANGED ncalls
    /\ At(t, "la_wait")
    /\ thr_state[t] = "RUNNING"
    /\ LET l == thr_loc[t].lock
       IN  IF lock_owner[l] # NULL
           THEN /\ thr_pc' = [thr_pc EXCEPT ![t] = "cw_mark"]
                /\ thr_loc' = [thr_loc EXCEPT ![t].cont = "la_wait",
                                              ![t].cond = << "released", l >>]
                /\ UNCHANGED thr_ie
           ELSE /\ thr_pc' = [thr_pc EXCEPT ![t] = "la_set"]
                /\ thr_ie' = [thr_ie EXCEPT ![t] = thr_loc[t].pie]
                /\ UNCHANGED thr_loc
    /\ UNCHANGED << thr_state, thr_parent, thr_list_next, thr_lock_list, TP,
                    ready_list, child_exit, lock_owner, lock_cnt, lock_next,
                    lock_released, halted, held >>

\* lock_acquire, the tail: cnt = 1, owner = TP, push on TP's lock list.
lock_acquire_set(t) ==
    /\ UNCHANGED ncalls
    /\ At(t, "la_set")
    /\ thr_state[t] = "RUNNING"
    /\ LET l == thr_loc[t].lock
       IN  /\ lock_cnt' = [lock_cnt EXCEPT ![l] = 1]
           /\ lock_owner' = [lock_owner EXCEPT ![l] = t]
           /\ lock_next' = [lock_next EXCEPT ![l] = thr_lock_list[t]]
           /\ thr_lock_list' = [thr_lock_list EXCEPT ![t] = l]
           /\ held' = [held EXCEPT ![l][t] = @ + 1]
    /\ thr_pc' = [thr_pc EXCEPT ![t] = "run"]
    /\ thr_loc' = [thr_loc EXCEPT ![t] = NoLoc]
    /\ UNCHANGED << thr_state, thr_parent, thr_list_next, thr_ie, TP, ready_list,
                    child_exit, lock_released, halted >>

\* ---- lock_release ----

\* The walk of lock_release over the owner's lock list: the lock that points to
\* l, NULL when l is the head, and whether l is on the list at all.
RECURSIVE FindLock(_, _, _, _)
FindLock(target, previous, l, seen) ==
    IF target = NULL THEN [found |-> FALSE, previous |-> previous, loops |-> FALSE]
    ELSE IF target = l THEN [found |-> TRUE, previous |-> previous, loops |-> FALSE]
    ELSE IF target \in seen THEN [found |-> FALSE, previous |-> previous, loops |-> TRUE]
    ELSE FindLock(lock_next[target], target, l, seen \cup {target})

\* lock_release, first half, called by t on l and continuing at pc cont when
\* the lock is dropped, at pc same when only the count went down.  The
\* assertion "lock->owner == TP" stops the kernel when it fails.
lock_release_count(t, l, cont, same) ==
    IF lock_owner[l] # t
    THEN /\ halted' = "fault"
         /\ UNCHANGED << lock_cnt, lock_owner, held, thr_pc, thr_loc >>
    ELSE /\ lock_cnt' = [lock_cnt EXCEPT ![l] = @ - 1]
         /\ held' = [held EXCEPT ![l][t] = IF @ > 0 THEN @ - 1 ELSE 0]
         /\ halted' = halted
         /\ IF lock_cnt[l] - 1 > 0
            THEN /\ thr_pc' = [thr_pc EXCEPT ![t] = same]
                 /\ thr_loc' = IF same = "te_next"
                               THEN [thr_loc EXCEPT ![t].lock = l]
                               ELSE thr_loc
                 /\ UNCHANGED lock_owner
            ELSE /\ lock_owner' = [lock_owner EXCEPT ![l] = NULL]
                 /\ thr_pc' = [thr_pc EXCEPT ![t] = "lr_unlink"]
                 /\ thr_loc' = [thr_loc EXCEPT ![t].lock = l, ![t].cont = cont]

lock_release(t, l) ==
    /\ AtRun(t)
    /\ Call
    /\ Worker(t)
    /\ lock_owner[l] = t
    /\ lock_release_count(t, l, "run", "run")
    /\ UNCHANGED << thr_state, thr_parent, thr_list_next, thr_lock_list, thr_ie, TP,
                    ready_list, child_exit, lock_next, lock_released >>

\* lock_release, second half: unlink the lock from the caller's lock list and
\* enter condition_broadcast(&lock->released), which reads the head of the
\* wait list.
lock_release_unlink(t) ==
    /\ UNCHANGED ncalls
    /\ At(t, "lr_unlink")
    /\ thr_state[t] = "RUNNING"
    /\ LET l == thr_loc[t].lock
           f == FindLock(thr_lock_list[t], NULL, l, {})
       IN  IF f.loops
           THEN /\ halted' = "hang"
                /\ UNCHANGED << thr_lock_list, lock_next, thr_pc, thr_loc >>
           ELSE /\ halted' = halted
                /\ IF ~f.found
                   THEN UNCHANGED << thr_lock_list, lock_next >>
                   ELSE IF f.previous = NULL
                   THEN /\ thr_lock_list' = [thr_lock_list EXCEPT ![t] = lock_next[l]]
                        /\ UNCHANGED lock_next
                   ELSE /\ lock_next' = [lock_next EXCEPT ![f.previous] = lock_next[l]]
                        /\ UNCHANGED thr_lock_list
                /\ thr_pc' = [thr_pc EXCEPT ![t] = "lr_bcast"]
                /\ thr_loc' = [thr_loc EXCEPT ![t].head = lock_released[l].head]
    /\ UNCHANGED << thr_state, thr_parent, thr_list_next, thr_ie, TP, ready_list,
                    child_exit, lock_owner, lock_cnt, lock_released, held >>

\* lock_release, the end: the rest of condition_broadcast(&lock->released).
lock_release_bcast(t) ==
    /\ UNCHANGED ncalls
    /\ At(t, "lr_bcast")
    /\ thr_state[t] = "RUNNING"
    /\ LET l == thr_loc[t].lock
           b == condition_broadcast(thr_loc[t].head, lock_released[l], thr_state,
                                    ready_list, thr_list_next)
       IN  /\ thr_state' = b.st
           /\ ready_list' = b.rl
           /\ thr_list_next' = b.nx
           /\ lock_released' = [lock_released EXCEPT ![l] = b.wl]
    /\ thr_pc' = [thr_pc EXCEPT ![t] = thr_loc[t].cont]
    /\ thr_loc' = [thr_loc EXCEPT ![t].cont = "run", ![t].head = NULL]
    /\ UNCHANGED << thr_parent, thr_lock_list, thr_ie, TP, child_exit, lock_owner,
                    lock_cnt, lock_next, halted, held >>

\* ---- thread_exit ----

\* thread_exit, entry: main halts the machine; any other thread enters
\* condition_broadcast(&TP->parent->child_exit), which reads the head of the
\* wait list.
thread_exit(t) ==
    /\ AtRun(t)
    /\ Call
    /\ Worker(t)
    /\ IF t = MAIN_TID
       THEN /\ halted' = "halt"
            /\ UNCHANGED << thr_pc, thr_loc >>
       ELSE /\ halted' = halted
            /\ thr_pc' = [thr_pc EXCEPT ![t] = "te_bcast"]
            /\ thr_loc' = [thr_loc EXCEPT ![t].head =
                             IF thr_parent[t] # NULL
                             THEN child_exit[thr_parent[t]].head ELSE NULL]
    /\ UNCHANGED << thr_state, thr_parent, thr_list_next, thr_lock_list, thr_ie, TP,
                    ready_list, child_exit, lock_owner, lock_cnt, lock_next,
                    lock_released, held >>

\* thread_exit: the rest of the broadcast of the parent's child_exit, and the
\* read of the head of the lock list.
thread_exit_bcast(t) ==
    /\ UNCHANGED ncalls
    /\ At(t, "te_bcast")
    /\ thr_state[t] = "RUNNING"
    /\ IF thr_parent[t] # NULL
       THEN LET p == thr_parent[t]
                b == condition_broadcast(thr_loc[t].head, child_exit[p], thr_state,
                                         ready_list, thr_list_next)
            IN  /\ thr_state' = b.st
                /\ ready_list' = b.rl
                /\ thr_list_next' = b.nx
                /\ child_exit' = [child_exit EXCEPT ![p] = b.wl]
       ELSE UNCHANGED << thr_state, ready_list, thr_list_next, child_exit >>
    /\ thr_pc' = [thr_pc EXCEPT ![t] = "te_locks"]
    /\ thr_loc' = [thr_loc EXCEPT ![t].lock = thr_lock_list[t], ![t].head = NULL]
    /\ UNCHANGED << thr_parent, thr_lock_list, thr_ie, TP, lock_owner, lock_cnt,
                    lock_next, lock_released, halted, held >>

\* thread_exit, the loop "while (head != NULL) { lock_release(head); ... }":
\* the test and the first half of lock_release.
thread_exit_locks(t) ==
    /\ UNCHANGED ncalls
    /\ At(t, "te_locks")
    /\ thr_state[t] = "RUNNING"
    /\ LET head == thr_loc[t].lock
       IN  IF head = NULL
           THEN /\ thr_pc' = [thr_pc EXCEPT ![t] = "te_mark"]
                /\ UNCHANGED << thr_loc, lock_cnt, lock_owner, held, halted >>
           ELSE lock_release_count(t, head, "te_next", "te_next")
    /\ UNCHANGED << thr_state, thr_parent, thr_list_next, thr_lock_list, thr_ie, TP,
                    ready_list, child_exit, lock_next, lock_released >>

\* thread_exit, the loop's "head = head->next".
thread_exit_next(t) ==
    /\ UNCHANGED ncalls
    /\ At(t, "te_next")
    /\ thr_state[t] = "RUNNING"
    /\ thr_loc' = [thr_loc EXCEPT ![t].lock = lock_next[thr_loc[t].lock]]
    /\ thr_pc' = [thr_pc EXCEPT ![t] = "te_locks"]
    /\ UNCHANGED << thr_state, thr_parent, thr_list_next, thr_lock_list, thr_ie, TP,
                    ready_list, child_exit, lock_owner, lock_cnt, lock_next,
                    lock_released, halted, held >>

\* thread_exit, the end: the thread becomes EXITED and is switched away for good.
thread_exit_mark(t) ==
    /\ UNCHANGED ncalls
    /\ At(t, "te_mark")
    /\ thr_state[t] = "RUNNING"
    /\ thr_pc' = [thr_pc EXCEPT ![t] = "dead"]
    /\ thr_loc' = [thr_loc EXCEPT ![t] = NoLoc]
    /\ Suspend(t, [thr_state EXCEPT ![t] = "EXITED"], ready_list, thr_list_next)
    /\ UNCHANGED << thr_parent, thr_lock_list, thr_ie, child_exit, lock_owner,
                    lock_cnt, lock_next, lock_released, held >>

\* ---- thread_join / thread_reclaim ----

\* The child thread_join settles on: tid itself, or for tid 0 the first slot
\* in 1..NTHR-2 whose thread is a child of the caller (the last slot examined
\* when there is none).
JoinTarget(t, tid) ==
    IF tid # 0 THEN tid
    ELSE LET mine == { c \in 1 .. (NTHR - 2) :
                         thr_state[c] # "NONE" /\ thr_parent[c] = t }
         IN  IF mine = {} THEN NTHR - 2
             ELSE CHOOSE c \in mine : \A d \in mine : c <= d

\* thread_reclaim: the children of tid are handed to its parent, the slot is
\* emptied.
thread_reclaim(tid, par, st) ==
    [par |-> [c \in Tid |-> IF c >= 1 /\ st[c] # "NONE" /\ par[c] = tid
                            THEN par[tid] ELSE par[c]],
     st  |-> [st EXCEPT ![tid] = "NONE"]]

\* thread_join, entry: an empty slot or a thread that is not the caller's child
\* gives -ECHILD at once; otherwise the parent's child_exit condition is
\* re-initialised and the wait loop starts.  The idle thread never exits, so a
\* join on it is left out.
thread_join(t, tid) ==
    /\ AtRun(t)
    /\ Call
    /\ Worker(t)
    /\ tid # IDLE_TID
    /\ LET c == JoinTarget(t, tid)
       IN  IF thr_state[c] = "NONE" \/ thr_parent[c] # t
           THEN /\ thr_loc' = [thr_loc EXCEPT ![t].ret = RetErr("ECHILD")]
                /\ UNCHANGED << thr_pc, child_exit >>
           ELSE /\ c # IDLE_TID
                /\ child_exit' = [child_exit EXCEPT ![t] = tlclear]
                /\ thr_pc' = [thr_pc EXCEPT ![t] = "tj_loop"]
                /\ thr_loc' = [thr_loc EXCEPT ![t].tid = c]
    /\ UNCHANGED << thr_state, thr_parent, thr_list_next, thr_lock_list, thr_ie, TP,
                    ready_list, lock_owner, lock_cnt, lock_next, lock_released,
                    halted, held >>

\* thread_join, the loop "while (child->state != THREAD_EXITED) condition_wait"
\* and the thread_reclaim that follows it.
thread_join_loop(t) ==
    /\ UNCHANGED ncalls
    /\ At(t, "tj_loop")
    /\ thr_state[t] = "RUNNING"
    /\ LET c == thr_loc[t].tid
       IN  IF thr_state[c] # "EXITED"
           THEN /\ thr_pc' = [thr_pc EXCEPT ![t] = "cw_mark"]
                /\ thr_loc' = [thr_loc EXCEPT ![t].cont = "tj_loop",
                                    ![t].cond = << "child_exit", thr_parent[c] >>]
                /\ UNCHANGED << thr_state, thr_parent >>
           ELSE LET r == thread_reclaim(c, thr_parent, thr_state)
                IN  /\ thr_state' = r.st
                    /\ thr_parent' = r.par
                    /\ thr_pc' = [thr_pc EXCEPT ![t] = "run"]
                    /\ thr_loc' = [thr_loc EXCEPT ![t] = [NoLoc EXCEPT !.ret = RetVal(c)]]
    /\ UNCHANGED << thr_list_next, thr_lock_list, thr_ie, TP, ready_list, child_exit,
                    lock_owner, lock_cnt, lock_next, lock_released, halted, held,
              ncalls >>

\* ---- preemption ----

\* A timer interrupt taken by the running thread while its interrupts are
\* enabled: the handler yields through running_thread_suspend, whatever the
\* thread was doing.
timer_preempt(t) ==
    /\ UNCHANGED ncalls
    /\ halted = "no"
    /\ TP = t
    /\ thr_ie[t]
    /\ thr_state[t] \in {"RUNNING", "WAITING"}
    /\ Suspend(t, thr_state, ready_list, thr_list_next)
    /\ UNCHANGED << thr_parent, thr_lock_list, thr_ie, thr_pc, thr_loc, child_exit,
                    lock_owner, lock_cnt, lock_next, lock_released, held >>

ThreadNext ==
    \/ \E t \in Tid : thread_spawn(t) /\ ThreadFrame
    \/ \E t \in Tid : thread_yield(t) /\ ThreadFrame
    \/ idle_thread_func /\ ThreadFrame
    \/ \E t \in Tid : condition_wait_mark(t) /\ ThreadFrame
    \/ \E t \in Tid : condition_wait_link(t) /\ ThreadFrame
    \/ \E t \in Tid, l \in LockId : lock_acquire(t, l) /\ ThreadFrame
    \/ \E t \in Tid : lock_acquire_wait(t) /\ ThreadFrame
    \/ \E t \in Tid : lock_acquire_set(t) /\ ThreadFrame
    \/ \E t \in Tid, l \in LockId : lock_release(t, l) /\ ThreadFrame
    \/ \E t \in Tid : lock_release_unlink(t) /\ ThreadFrame
    \/ \E t \in Tid : lock_release_bcast(t) /\ ThreadFrame
    \/ \E t \in Tid : thread_exit(t) /\ ThreadFrame
    \/ \E t \in Tid : thread_exit_bcast(t) /\ ThreadFrame
    \/ \E t \in Tid : thread_exit_locks(t) /\ ThreadFrame
    \/ \E t \in Tid : thread_exit_next(t) /\ ThreadFrame
    \/ \E t \in Tid : thread_exit_mark(t) /\ ThreadFrame
    \/ \E t \in Tid, tid \in Tid : thread_join(t, tid) /\ ThreadFrame
    \/ \E t \in Tid : thread_join_loop(t) /\ ThreadFrame
    \/ \E t \in Tid : timer_preempt(t) /\ ThreadFrame

\* The kernel with timer interrupts, one lock and no thread_yield, for
\* MaxDeepCalls calls.
DeepLock == { 1 }
DeepNext ==
    \/ \E t \in Tid : thread_spawn(t) /\ DeepFrame
    \/ idle_thread_func /\ DeepFrame
    \/ \E t \in Tid : condition_wait_mark(t) /\ DeepFrame
    \/ \E t \in Tid : condition_wait_link(t) /\ DeepFrame
    \/ \E t \in Tid, l \in DeepLock : lock_acquire(t, l) /\ DeepFrame
    \/ \E t \in Tid : lock_acquire_wait(t) /\ DeepFrame
    \/ \E t \in Tid : lock_acquire_set(t) /\ DeepFrame
    \/ \E t \in Tid, l \in DeepLock : lock_release(t, l) /\ DeepFrame
    \/ \E t \in Tid : lock_release_unlink(t) /\ DeepFrame
    \/ \E t \in Tid : lock_release_bcast(t) /\ DeepFrame
    \/ \E t \in Tid : thread_exit(t) /\ DeepFrame
    \/ \E t \in Tid : thread_exit_bcast(t) /\ DeepFrame
    \/ \E t \in Tid : thread_exit_locks(t) /\ DeepFrame
    \/ \E t \in Tid : thread_exit_next(t) /\ DeepFrame
    \/ \E t \in Tid : thread_exit_mark(t) /\ DeepFrame
    \/ \E t \in Tid : thread_join(t, 0) /\ DeepFrame
    \/ \E t \in Tid : thread_join_loop(t) /\ DeepFrame
    \/ \E t \in Tid : timer_preempt(t) /\ DeepFrame

\* The kernel with timer interrupts, one lock, no thread_yield and no
\* thread_join, for MaxExitCalls calls.
ExitNext ==
    \/ \E t \in Tid : thread_spawn(t) /\ ExitFrame
    \/ idle_thread_func /\ ExitFrame
    \/ \E t \in Tid : condition_wait_mark(t) /\ ExitFrame
    \/ \E t \in Tid : condition_wait_link(t) /\ ExitFrame
    \/ \E t \in Tid, l \in DeepLock : lock_acquire(t, l) /\ ExitFrame
    \/ \E t \in Tid : lock_acquire_wait(t) /\ ExitFrame
    \/ \E t \in Tid : lock_acquire_set(t) /\ ExitFrame
    \/ \E t \in Tid, l \in DeepLock : lock_release(t, l) /\ ExitFrame
    \/ \E t \in Tid : lock_release_unlink(t) /\ ExitFrame
    \/ \E t \in Tid : lock_release_bcast(t) /\ ExitFrame
    \/ \E t \in Tid : thread_exit(t) /\ ExitFrame
    \/ \E t \in Tid : thread_exit_bcast(t) /\ ExitFrame
    \/ \E t \in Tid : thread_exit_locks(t) /\ ExitFrame
    \/ \E t \in Tid : thread_exit_next(t) /\ ExitFrame
    \/ \E t \in Tid : thread_exit_mark(t) /\ ExitFrame
    \/ \E t \in Tid : timer_preempt(t) /\ ExitFrame

\* The same kernel without timer interrupts: threads switch only where the
\* code calls running_thread_suspend.
CoopNext ==
    \/ \E t \in Tid : thread_spawn(t) /\ ThreadFrame
    \/ \E t \in Tid : thread_yield(t) /\ ThreadFrame
    \/ idle_thread_func /\ ThreadFrame
    \/ \E t \in Tid : condition_wait_mark(t) /\ ThreadFrame
    \/ \E t \in Tid : condition_wait_link(t) /\ ThreadFrame
    \/ \E t \in Tid, l \in LockId : lock_acquire(t, l) /\ ThreadFrame
    \/ \E t \in Tid : lock_acquire_wait(t) /\ ThreadFrame
    \/ \E t \in Tid : lock_acquire_set(t) /\ ThreadFrame
    \/ \E t \in Tid, l \in LockId : lock_release(t, l) /\ ThreadFrame
    \/ \E t \in Tid : lock_release_unlink(t) /\ ThreadFrame
    \/ \E t \in Tid : lock_release_bcast(t) /\ ThreadFrame
    \/ \E t \in Tid : thread_exit(t) /\ ThreadFrame
    \/ \E t \in Tid : thread_exit_bcast(t) /\ ThreadFrame
    \/ \E t \in Tid : thread_exit_locks(t) /\ ThreadFrame
    \/ \E t \in Tid : thread_exit_next(t) /\ ThreadFrame
    \/ \E t \in Tid : thread_exit_mark(t) /\ ThreadFrame
    \/ \E t \in Tid, tid \in Tid : thread_join(t, tid) /\ ThreadFrame
    \/ \E t \in Tid : thread_join_loop(t) /\ ThreadFrame

\* ---- properties of the thread subsystem ----

\* C1: a lock is held by at most one thread at a time: between the return of
\* a thread's lock_acquire and its matching lock_release no other thread's
\* lock_acquire on the same lock returns.
C1_MutualExclusion ==
    \A l \in LockId : Cardinality({ t \in Tid : held[l][t] > 0 }) <= 1

\* C2: the exit broadcast is never lost: a parent is never left waiting in
\* thread_join for a child that has already exited.
C2_JoinNotLost ==
    \A p \in Tid, c \in Tid :
        ~ ( /\ thr_state[c] = "EXITED"
            /\ thr_state[p] = "WAITING"
            /\ thr_loc[p].tid = c
            /\ thr_loc[p].cont = "tj_loop"
            /\ thr_pc[p] \in {"cw_link", "tj_loop"} )

\* C3: no lock is left owned by an Exited thread.
C3_NoLockOwnedByExited ==
    \A l \in LockId :
        lock_owner[l] # NULL => thr_state[lock_owner[l]] # "EXITED"

\* The threads of a list in order, from its head through list_next.
RECURSIVE ListSeqFrom(_, _, _)
ListSeqFrom(h, nx, seen) ==
    IF h = NULL \/ h \in seen THEN << >>
    ELSE << h >> \o ListSeqFrom(nx[h], nx, seen \cup {h})

ListSeq(list, nx) == ListSeqFrom(list.head, nx, {})

\* The conditions of the kernel.
Conds == { << "child_exit", t >> : t \in Tid } \cup { << "released", l >> : l \in LockId }

\* The thread is linked in the ready list or in the wait list of a condition.
Linked(t) ==
    \/ t \in Chain(ready_list, thr_list_next)
    \/ \E c \in Conds : t \in Chain(CondList(c), thr_list_next)

\* C15: a thread that has exited is not the running thread and is linked in
\* no list, and no step (no broadcast, yield or timer interrupt) makes it
\* Ready, Running or Waiting again: its slot stays Exited until thread_join
\* reclaims it.
C15_ExitedNeverRuns ==
    [][\A t \in Tid :
         thr_state[t] = "EXITED"
         => /\ thr_state'[t] \in { "EXITED", "NONE" }
            /\ TP' # t
            /\ ~ Linked(t)'
            /\ TP # t
            /\ ~ Linked(t)]_vars

\* The step is the condition_broadcast on c that thread_exit or lock_release
\* makes, from the point where its interrupts are disabled.
Broadcasts(c) ==
    /\ halted = "no"
    /\ halted' = "no"
    /\ \/ /\ c[1] = "child_exit"
          /\ TP # MAIN_TID
          /\ thr_parent[TP] = c[2]
          /\ thr_pc[TP] = "te_bcast"
          /\ thr_pc'[TP] = "te_locks"
       \/ /\ c[1] = "released"
          /\ thr_loc[TP].lock = c[2]
          /\ thr_pc[TP] = "lr_bcast"
          /\ thr_pc'[TP] # "lr_bcast"

\* C16: a broadcast on a condition empties its wait list, makes its waiters
\* Ready and appends them to the ready list in the order of the wait list,
\* behind the threads that were in the ready list; the running thread stays
\* the running thread, and the waiters of every other condition stay linked
\* and in their state.
C16_BroadcastWakesAllInOrder ==
    [][\A c \in Conds :
         (Broadcasts(c) /\ thr_loc[TP].head # NULL)
         => LET W == ListSeq(CondList(c), thr_list_next)
            IN  /\ CondList(c)' = EmptyList
                /\ \A i \in 1 .. Len(W) : thr_state'[W[i]] = "READY"
                /\ ListSeq(ready_list, thr_list_next)' =
                      ListSeq(ready_list, thr_list_next) \o W
                /\ TP' = TP
                /\ thr_state'[TP] = thr_state[TP]
                /\ \A d \in Conds \ {c} :
                     /\ ListSeq(CondList(d), thr_list_next)' =
                          ListSeq(CondList(d), thr_list_next)
                     /\ \A u \in Chain(CondList(d), thr_list_next) :
                          thr_state'[u] = thr_state[u]]_vars


\* The thread is linked in the wait list of some condition.
OnWaitList(t) == \E c \in Conds : t \in Chain(CondList(c), thr_list_next)

\* C31: condition_wait is atomic with respect to interrupts: a thread that
\* is marked Waiting is not switched away from before it is linked into the
\* condition's wait list, so a thread that is Waiting and not running is
\* linked in a wait list (where the next broadcast finds it).
C31_WaitIsAtomic ==
    \A t \in Tid :
        (thr_state[t] = "WAITING" /\ TP # t) => OnWaitList(t)

\* The conditions in whose wait list the thread is linked.
WaitListsOf(t) == { c \in Conds : t \in Chain(CondList(c), thr_list_next) }

\* No thread is inside a kernel call: each one is between two calls or has
\* left thread_exit.
OperationCompleted == halted = "no" /\ \A t \in Tid : thr_pc[t] \in { "run", "dead" }

\* C34: after every completed scheduler operation exactly one thread is
\* Running, a thread is linked in the ready list iff it is Ready, a thread is
\* linked in the wait list of exactly one condition iff it is Waiting, and an
\* Exited or reclaimed thread is linked in no list.
C34_ListsMatchStates ==
    OperationCompleted
    => /\ Cardinality({ t \in Tid : thr_state[t] = "RUNNING" }) = 1
       /\ \A t \in Tid :
            /\ (t \in Chain(ready_list, thr_list_next)) <=> (thr_state[t] = "READY")
            /\ (thr_state[t] = "WAITING") <=> (Cardinality(WaitListsOf(t)) = 1)
            /\ Cardinality(WaitListsOf(t)) <= 1
            /\ (thr_state[t] \in { "EXITED", "NONE" }) => ~ Linked(t)

\* The locks linked from l through lock->next, in order; the walk stops at a
\* lock it has already visited.
RECURSIVE LockSeqFrom(_, _)
LockSeqFrom(l, seen) ==
    IF l = NULL THEN << >>
    ELSE IF l \in seen THEN << l >>
    ELSE << l >> \o LockSeqFrom(lock_next[l], seen \cup {l})

\* The owned-lock list of thread t.
LockList(t) == LockSeqFrom(thr_lock_list[t], {})

\* The number of times the lock occurs on the owned-lock list of the thread.
OnLockList(l, t) == Cardinality({ i \in DOMAIN LockList(t) : LockList(t)[i] = l })

\* The kernel with timer interrupts where the threads only spawn, yield and
\* use locks: no thread exits.
LockNext ==
    \/ \E t \in Tid : thread_spawn(t) /\ ThreadFrame
    \/ \E t \in Tid : thread_yield(t) /\ ThreadFrame
    \/ idle_thread_func /\ ThreadFrame
    \/ \E t \in Tid : condition_wait_mark(t) /\ ThreadFrame
    \/ \E t \in Tid : condition_wait_link(t) /\ ThreadFrame
    \/ \E t \in Tid, l \in LockId : lock_acquire(t, l) /\ ThreadFrame
    \/ \E t \in Tid : lock_acquire_wait(t) /\ ThreadFrame
    \/ \E t \in Tid : lock_acquire_set(t) /\ ThreadFrame
    \/ \E t \in Tid, l \in LockId : lock_release(t, l) /\ ThreadFrame
    \/ \E t \in Tid : lock_release_unlink(t) /\ ThreadFrame
    \/ \E t \in Tid : lock_release_bcast(t) /\ ThreadFrame
    \/ \E t \in Tid : timer_preempt(t) /\ ThreadFrame

\* C35: when no thread is inside a kernel call, a lock is on the owned-lock
\* list of thread T iff T is its owner, it is there once and on no other
\* thread's list, and its count is positive iff it has an owner.
C35_LockListsMatchOwners ==
    OperationCompleted
    => \A l \in LockId :
         /\ \A t \in Tid :
              /\ (OnLockList(l, t) > 0) <=> (lock_owner[l] = t)
              /\ OnLockList(l, t) <= 1
         /\ (lock_cnt[l] > 0) <=> (lock_owner[l] # NULL)

\* ---- running_thread_suspend, step by step ----

SchedInit ==
    /\ rts_next = [t \in Tid |-> NULL]
    /\ rts_cont = [t \in Tid |-> "run"]

\* running_thread_suspend by thread t, up to restore_interrupts(pie): the
\* caller is put back on the ready list if it is still RUNNING and the head of
\* the ready list becomes next_thread.  The caller continues at cont when it
\* is switched back to.  A null next_thread is dereferenced right away.
SuspendDequeue(t, st, rl, nx, cont) ==
    LET ins == IF st[t] = "RUNNING" THEN tlinsert(rl, nx, t)
               ELSE [list |-> rl, nx |-> nx]
        st1 == IF st[t] = "RUNNING" THEN [st EXCEPT ![t] = "READY"] ELSE st
        rem == tlremove(ins.list, ins.nx)
    IN  /\ thr_state' = st1
        /\ ready_list' = rem.list
        /\ thr_list_next' = rem.nx
        /\ TP' = TP
        /\ IF rem.thr = NULL
           THEN /\ halted' = "fault"
                /\ thr_pc' = thr_pc
                /\ UNCHANGED schedVars
           ELSE /\ halted' = halted
                /\ thr_pc' = [thr_pc EXCEPT ![t] = "rts_switch"]
                /\ rts_next' = [rts_next EXCEPT ![t] = rem.thr]
                /\ rts_cont' = [rts_cont EXCEPT ![t] = cont]

\* The thread is in running_thread_suspend after enable_interrupts() and
\* before _thread_swtch.
InSwitchWindow(t) ==
    /\ halted = "no"
    /\ TP = t
    /\ thr_pc[t] = "rts_switch"

\* running_thread_suspend, second half: next_thread is marked RUNNING and
\* switched to.
SuspendSwitch(t) ==
    /\ UNCHANGED ncalls
    /\ InSwitchWindow(t)
    /\ thr_state' = [thr_state EXCEPT ![rts_next[t]] = "RUNNING"]
    /\ TP' = rts_next[t]
    /\ thr_pc' = [thr_pc EXCEPT ![t] = rts_cont[t]]
    /\ rts_next' = [rts_next EXCEPT ![t] = NULL]
    /\ rts_cont' = [rts_cont EXCEPT ![t] = "run"]
    /\ UNCHANGED << thr_parent, thr_list_next, thr_lock_list, thr_ie, thr_loc,
                    ready_list, child_exit, lock_owner, lock_cnt, lock_next,
                    lock_released, halted, held >>

\* A timer interrupt taken between enable_interrupts() and _thread_swtch: the
\* handler yields through another running_thread_suspend, with TP still the
\* suspending thread.
SuspendPreempt(t) ==
    /\ UNCHANGED ncalls
    /\ InSwitchWindow(t)
    /\ Suspend(t, thr_state, ready_list, thr_list_next)
    /\ UNCHANGED << thr_parent, thr_lock_list, thr_ie, thr_pc, thr_loc, child_exit,
                    lock_owner, lock_cnt, lock_next, lock_released, held, schedVars >>

\* thread_yield, up to the dequeue.
thread_yield_dequeue(t) ==
    /\ AtRun(t)
    /\ Call
    /\ Worker(t)
    /\ SuspendDequeue(t, thr_state, ready_list, thr_list_next, "run")
    /\ UNCHANGED << thr_parent, thr_lock_list, thr_ie, thr_loc, child_exit,
                    lock_owner, lock_cnt, lock_next, lock_released, held >>

\* idle_thread_func, up to the dequeue of its thread_yield.
idle_thread_dequeue ==
    /\ UNCHANGED ncalls
    /\ AtRun(IDLE_TID)
    /\ ready_list.head # NULL
    /\ SuspendDequeue(IDLE_TID, thr_state, ready_list, thr_list_next, "run")
    /\ UNCHANGED << thr_parent, thr_lock_list, thr_ie, thr_loc, child_exit,
                    lock_owner, lock_cnt, lock_next, lock_released, held >>

\* condition_wait from the tlinsert on, up to the dequeue.
condition_wait_dequeue(t) ==
    /\ UNCHANGED ncalls
    /\ At(t, "cw_link")
    /\ LET c == thr_loc[t].cond
           ins == tlinsert(CondList(c), thr_list_next, t)
       IN  /\ IF c[1] = "child_exit"
              THEN /\ child_exit' = [child_exit EXCEPT ![c[2]] = ins.list]
                   /\ UNCHANGED lock_released
              ELSE /\ lock_released' = [lock_released EXCEPT ![c[2]] = ins.list]
                   /\ UNCHANGED child_exit
           /\ SuspendDequeue(t, thr_state, ready_list, ins.nx, thr_loc[t].cont)
    /\ UNCHANGED << thr_parent, thr_lock_list, thr_ie, thr_loc, lock_owner, lock_cnt,
                    lock_next, held >>

\* thread_exit, the end, up to the dequeue.
thread_exit_dequeue(t) ==
    /\ UNCHANGED ncalls
    /\ At(t, "te_mark")
    /\ thr_state[t] = "RUNNING"
    /\ thr_loc' = [thr_loc EXCEPT ![t] = NoLoc]
    /\ SuspendDequeue(t, [thr_state EXCEPT ![t] = "EXITED"], ready_list,
                      thr_list_next, "dead")
    /\ UNCHANGED << thr_parent, thr_lock_list, thr_ie, child_exit, lock_owner,
                    lock_cnt, lock_next, lock_released, held >>

\* The scheduler with spawn, yield, join and exit, with the timer interrupt
\* also taken inside running_thread_suspend, for MaxSchedCalls calls.
SchedNext ==
    \/ \E t \in Tid : thread_spawn(t) /\ SchedFrame /\ UNCHANGED schedVars
    \/ \E t \in Tid : thread_yield_dequeue(t) /\ SchedFrame
    \/ idle_thread_dequeue /\ SchedFrame
    \/ \E t \in Tid : condition_wait_mark(t) /\ SchedFrame /\ UNCHANGED schedVars
    \/ \E t \in Tid : condition_wait_dequeue(t) /\ SchedFrame
    \/ \E t \in Tid : thread_exit(t) /\ SchedFrame /\ UNCHANGED schedVars
    \/ \E t \in Tid : thread_exit_bcast(t) /\ SchedFrame /\ UNCHANGED schedVars
    \/ \E t \in Tid : thread_exit_locks(t) /\ SchedFrame /\ UNCHANGED schedVars
    \/ \E t \in Tid : thread_exit_dequeue(t) /\ SchedFrame
    \/ \E t \in Tid, tid \in Tid : thread_join(t, tid) /\ SchedFrame /\ UNCHANGED schedVars
    \/ \E t \in Tid : thread_join_loop(t) /\ SchedFrame /\ UNCHANGED schedVars
    \/ \E t \in Tid : SuspendSwitch(t) /\ SchedFrame
    \/ \E t \in Tid : SuspendPreempt(t) /\ SchedFrame

\* running_thread_suspend found the ready list empty: the caller was not
\* Running, so it was not put back, and tlremove returned a null thread.
NullDequeue == halted = "fault" /\ thr_state[TP] # "RUNNING"

\* C32: the idle thread is always Running or linked in the ready list (or
\* it is the thread that the running thread has just dequeued and is
\* switching to), and running_thread_suspend never dequeues a null thread
\* from an empty ready list.
C32_IdleAlwaysSchedulable ==
    /\ ~ NullDequeue
    /\ \/ thr_state[IDLE_TID] = "RUNNING" /\ TP = IDLE_TID
       \/ /\ thr_state[IDLE_TID] = "READY"
          /\ IDLE_TID \in Chain(ready_list, thr_list_next)
       \/ rts_next[TP] = IDLE_TID


\* ======================================================================
\* BLOCK CACHE                                                (sys/cache.c)
\* ======================================================================

\* Number of cache entries (64 in the source) and bytes per block (512 in the
\* source), scaled down; the device has more blocks than the cache has
\* entries, so that the clock hand evicts.
CACHE_CAPACITY == 2
CACHE_BLKSZ == 2
NumBlocks == 3

\* Longest buffer handed to cache_read_at / cache_write_at.
MaxBufLen == 2

\* Number of threads that use the cache at the same time, and the number of
\* cache calls they enter.
NCacheThr == 2
MaxCacheCalls == 2

Byte == {0, 1}
Slot == 0 .. (CACHE_CAPACITY - 1)
BlockId == 0 .. (NumBlocks - 1)
Offset == 0 .. (CACHE_BLKSZ - 1)
DevPos == 0 .. (NumBlocks * CACHE_BLKSZ - 1)
Buffers == UNION { [1 .. n -> Byte] : n \in 0 .. MaxBufLen }

CACHE_ISUSED(e) == "USED" \in e.flags
CACHE_ISDIRTY(e) == "DIRTY" \in e.flags
CACHE_ISVALID(e) == "VALID" \in e.flags

\* The threads that call into the cache, and the owner of a free entry lock.
CacheThr == 1 .. NCacheThr
NoOwner == 0

\* The locals of a thread that is not inside a cache call.
NoCacheLoc ==
    [op |-> "none", pos |-> 0, buf |-> << >>, bufsz |-> 0, block_id |-> 0,
     idx |-> 0, dirty |-> FALSE, was |-> {}]

\* The device image before the cache is created.
OriginalByte(b, o) == (b + o) % 2

\* create_cache: every entry has flags 0 (kcalloc zeroes block_id and the
\* data array is a zeroed static), the clock hand is at 0.
CacheInit ==
    /\ backend = [b \in BlockId |-> [o \in Offset |-> OriginalByte(b, o)]]
    /\ cache_table = [i \in Slot |-> [block_id |-> 0, flags |-> {}]]
    /\ cache_data = [i \in Slot |-> [o \in Offset |-> 0]]
    /\ clock_idx = 0
    /\ last_read_idx = 0
    /\ cache_ret = [op |-> "none", pos |-> 0, data |-> << >>, hit |-> FALSE,
                    was |-> {}]
    /\ shadow = [b \in BlockId |-> [o \in Offset |-> OriginalByte(b, o)]]
    /\ cache_locks = [i \in Slot |-> NoOwner]
    /\ cache_cur = 1
    /\ cache_pc = [k \in CacheThr |-> "idle"]
    /\ cache_loc = [k \in CacheThr |-> NoCacheLoc]
    /\ cache_calls = 0

\* The clock sweep of cache_get_block: entries with USED set lose it and the
\* hand moves on, until it rests on an entry without USED.
RECURSIVE ClockSweep(_, _)
ClockSweep(tbl, clk) ==
    IF ~CACHE_ISUSED(tbl[clk]) THEN [tbl |-> tbl, clk |-> clk]
    ELSE ClockSweep([tbl EXCEPT ![clk].flags = @ \ {"USED"}],
                    (clk + 1) % CACHE_CAPACITY)

\* cache_get_block for the block at the aligned position pos: the entry that
\* holds the block afterwards, and the table, data and clock hand.  The entry's
\* lock is taken here and dropped by cache_release_block.
cache_get_block(tbl, data, clk, bk, pos) ==
    LET block_id == pos \div CACHE_BLKSZ
        hits == { i \in Slot : tbl[i].block_id = block_id /\ CACHE_ISVALID(tbl[i]) }
    IN  IF hits # {}
        THEN LET i == CHOOSE x \in hits : \A y \in hits : x <= y
             IN [idx |-> i, hit |-> TRUE,
                 tbl |-> [tbl EXCEPT ![i].flags = @ \cup {"USED"}],
                 data |-> data, clk |-> clk]
        ELSE LET sw == ClockSweep(tbl, clk)
                 idx == sw.clk
             IN [idx |-> idx, hit |-> FALSE,
                 tbl |-> [sw.tbl EXCEPT ![idx] = [block_id |-> block_id,
                                                  flags |-> {"USED", "VALID"}]],
                 data |-> [data EXCEPT ![idx] = bk[block_id]],
                 clk |-> idx]

\* cache_release_block without the write-back of a dirty block.
cache_release_block_nowrite(tbl, data, bk, idx, dirty) ==
    [tbl |-> [tbl EXCEPT ![idx].flags = @ \ {"DIRTY"}], bk |-> bk]

\* cache_release_block: a dirty block is written to the device at
\* block_id * CACHE_BLKSZ, the DIRTY flag is cleared.
cache_release_block(tbl, data, bk, idx, dirty) ==
    [tbl |-> [tbl EXCEPT ![idx].flags = @ \ {"DIRTY"}],
     bk  |-> IF dirty
             THEN [bk EXCEPT ![tbl[idx].block_id] = data[idx]]
             ELSE bk]

\* The length cache_read_at / cache_write_at clamp to: the rest of the block.
ClampLen(pos, len) ==
    IF len + (pos % CACHE_BLKSZ) > CACHE_BLKSZ
    THEN CACHE_BLKSZ - (pos % CACHE_BLKSZ) ELSE len

\* cache_read_at: at most the rest of the block is read; the block is fetched,
\* copied from, and released with its DIRTY flag as the dirty argument.
cache_read_at(pos, bufsz) ==
    \E g \in { cache_get_block(cache_table, cache_data, clock_idx, backend,
                               (pos \div CACHE_BLKSZ) * CACHE_BLKSZ) } :
    \E r \in { cache_release_block(g.tbl, g.data, backend, g.idx,
                                   CACHE_ISDIRTY(g.tbl[g.idx])) } :
        LET n == ClampLen(pos, bufsz)
            off == pos % CACHE_BLKSZ
        IN  /\ cache_ret' = [op |-> "read", pos |-> pos,
                             data |-> [k \in 1 .. n |-> g.data[g.idx][off + k - 1]],
                             hit |-> g.hit, was |-> {}]
            /\ cache_table' = r.tbl
            /\ cache_data' = g.data
            /\ backend' = r.bk
            /\ clock_idx' = g.clk
            /\ last_read_idx' = g.idx
            /\ UNCHANGED shadow

\* The block contents blk after n bytes of buf are copied in at offset off.
CopyIn(blk, off, buf, n) ==
    [o \in Offset |-> IF o >= off /\ o < off + n THEN buf[o - off + 1] ELSE blk[o]]

\* cache_write_at: at most the rest of the block is written; the block is
\* fetched, copied into, marked DIRTY and released as dirty.
cache_write_at(pos, buf) ==
    \E g \in { cache_get_block(cache_table, cache_data, clock_idx, backend,
                               (pos \div CACHE_BLKSZ) * CACHE_BLKSZ) } :
    \E d \in { [g.data EXCEPT ![g.idx] =
                  CopyIn(@, pos % CACHE_BLKSZ, buf, ClampLen(pos, Len(buf)))] } :
    \E t \in { [g.tbl EXCEPT ![g.idx].flags = @ \cup {"DIRTY"}] } :
    \E r \in { cache_release_block(t, d, backend, g.idx, CACHE_ISDIRTY(t[g.idx])) } :
        /\ cache_ret' = [op |-> "write", pos |-> 0, data |-> << >>, hit |-> g.hit,
                         was |-> {}]
        /\ cache_table' = r.tbl
        /\ cache_data' = d
        /\ backend' = r.bk
        /\ clock_idx' = g.clk
        /\ last_read_idx' = g.idx
        /\ shadow' = [shadow EXCEPT ![pos \div CACHE_BLKSZ] =
                         CopyIn(@, pos % CACHE_BLKSZ, buf, ClampLen(pos, Len(buf)))]

\* The entries that are DIRTY, with the block and the bytes each holds.
DirtySlots ==
    { [block_id |-> cache_table[i].block_id, data |-> cache_data[i]] :
        i \in { j \in Slot : CACHE_ISDIRTY(cache_table[j]) } }

\* cache_flush: cache_release_block on every entry, in index order.
RECURSIVE FlushFrom(_, _, _)
FlushFrom(i, tbl, bk) ==
    IF i = CACHE_CAPACITY THEN [tbl |-> tbl, bk |-> bk]
    ELSE LET r == cache_release_block(tbl, cache_data, bk, i, CACHE_ISDIRTY(tbl[i]))
         IN  FlushFrom(i + 1, r.tbl, r.bk)

cache_flush ==
    \E r \in { FlushFrom(0, cache_table, backend) } :
        /\ cache_table' = r.tbl
        /\ backend' = r.bk
        /\ cache_ret' = [op |-> "flush", pos |-> 0, data |-> << >>, hit |-> FALSE,
                         was |-> DirtySlots]
        /\ UNCHANGED << cache_data, clock_idx, last_read_idx, shadow >>

\* One caller: every call runs from its entry to its return.
CacheCallFrame == CacheFrame /\ UNCHANGED cacheThrVars

CacheNext ==
    \/ \E pos \in DevPos, bufsz \in 0 .. MaxBufLen : cache_read_at(pos, bufsz) /\ CacheCallFrame
    \/ \E pos \in DevPos, buf \in Buffers : cache_write_at(pos, buf) /\ CacheCallFrame
    \/ cache_flush /\ CacheCallFrame

\* ---- properties of the block cache ----

\* The byte the cache presents for block b, offset o: the cached copy when the
\* block is in the cache, the device's byte otherwise.
CacheView(b, o) ==
    LET hits == { i \in Slot : cache_table[i].block_id = b
                               /\ CACHE_ISVALID(cache_table[i]) }
    IN  IF hits = {} THEN backend[b][o]
        ELSE cache_data[CHOOSE x \in hits : \A y \in hits : x <= y][o]

\* C4: the cache behaves as one byte array: a read returns, byte for byte, the
\* value most recently written (the device's original value if never
\* written), a write changes only the bytes it was given, and after
\* cache_flush the device holds the same bytes.
C4_CacheIsByteArray ==
    /\ \A b \in BlockId, o \in Offset : CacheView(b, o) = shadow[b][o]
    /\ cache_ret.op = "read" =>
          \A k \in 1 .. Len(cache_ret.data) :
              cache_ret.data[k] = shadow[cache_ret.pos \div CACHE_BLKSZ]
                                        [(cache_ret.pos % CACHE_BLKSZ) + k - 1]
    /\ cache_ret.op = "flush" => backend = shadow

\* C4 witness: a read missed the cache and returned a whole block whose bytes
\* all differ from the device's original ones: the block was written through
\* the cache, evicted by the clock hand and fetched again.
C4_Witness ==
    /\ cache_ret.op = "read"
    /\ ~cache_ret.hit
    /\ Len(cache_ret.data) = CACHE_BLKSZ
    /\ \A k \in 1 .. Len(cache_ret.data) :
          cache_ret.data[k] # OriginalByte(cache_ret.pos \div CACHE_BLKSZ, k - 1)

\* ---- the cache with several calling threads ----
\*
\* A call is split where another thread can come to run: a thread stops at
\* lock_acquire while the entry's lock is held, and the timer interrupt can
\* suspend the caller between any two of the steps below.

CacheAt(k, pc) == cache_cur = k /\ cache_pc[k] = pc

CacheThrFrame == CacheFrame /\ UNCHANGED << cache_cur >>

\* A thread enters a cache call.
CacheEnter == cache_calls < MaxCacheCalls /\ cache_calls' = cache_calls + 1

\* cache_read_at / cache_write_at up to their call of cache_get_block.
cache_call(k, op, pos, buf, bufsz) ==
    /\ CacheAt(k, "idle")
    /\ CacheEnter
    /\ cache_pc' = [cache_pc EXCEPT ![k] = "cg_scan"]
    /\ cache_loc' = [cache_loc EXCEPT ![k] =
                        [NoCacheLoc EXCEPT !.op = op, !.pos = pos, !.buf = buf,
                                           !.bufsz = bufsz,
                                           !.block_id = pos \div CACHE_BLKSZ]]
    /\ UNCHANGED << backend, cache_table, cache_data, clock_idx, last_read_idx,
                    cache_ret, shadow, cache_locks >>

\* cache_get_block: the search for an entry that holds the block.
cache_get_block_scan(k) ==
    /\ UNCHANGED cache_calls
    /\ CacheAt(k, "cg_scan")
    /\ LET hits == { i \in Slot : cache_table[i].block_id = cache_loc[k].block_id
                                  /\ CACHE_ISVALID(cache_table[i]) }
       IN  IF hits # {}
           THEN /\ cache_loc' = [cache_loc EXCEPT ![k].idx =
                                    CHOOSE x \in hits : \A y \in hits : x <= y]
                /\ cache_pc' = [cache_pc EXCEPT ![k] = "cg_hit"]
           ELSE /\ cache_loc' = cache_loc
                /\ cache_pc' = [cache_pc EXCEPT ![k] = "cg_sweep"]
    /\ UNCHANGED << backend, cache_table, cache_data, clock_idx, last_read_idx,
                    cache_ret, shadow, cache_locks >>

\* cache_get_block, the block is in the cache: the entry's lock is taken, the
\* entry is marked USED.
cache_get_block_hit(k) ==
    /\ UNCHANGED cache_calls
    /\ CacheAt(k, "cg_hit")
    /\ cache_locks[cache_loc[k].idx] \in { NoOwner, k }
    /\ cache_locks' = [cache_locks EXCEPT ![cache_loc[k].idx] = k]
    /\ cache_table' = [cache_table EXCEPT ![cache_loc[k].idx].flags = @ \cup {"USED"}]
    /\ last_read_idx' = cache_loc[k].idx
    /\ cache_pc' = [cache_pc EXCEPT ![k] = "copy"]
    /\ UNCHANGED << backend, cache_data, clock_idx, cache_ret, shadow, cache_loc >>

\* cache_get_block, the block is not in the cache: the clock sweep.
cache_get_block_sweep(k) ==
    /\ UNCHANGED cache_calls
    /\ CacheAt(k, "cg_sweep")
    /\ \E sw \in { ClockSweep(cache_table, clock_idx) } :
          /\ cache_table' = sw.tbl
          /\ clock_idx' = sw.clk
          /\ cache_loc' = [cache_loc EXCEPT ![k].idx = sw.clk]
    /\ cache_pc' = [cache_pc EXCEPT ![k] = "cg_load"]
    /\ UNCHANGED << backend, cache_data, last_read_idx, cache_ret, shadow,
                    cache_locks >>

\* cache_get_block, the block is not in the cache: the entry's lock is taken,
\* the block is read from the device and the entry is set to it.
cache_get_block_load(k) ==
    /\ UNCHANGED cache_calls
    /\ CacheAt(k, "cg_load")
    /\ cache_locks[cache_loc[k].idx] \in { NoOwner, k }
    /\ cache_locks' = [cache_locks EXCEPT ![cache_loc[k].idx] = k]
    /\ cache_data' = [cache_data EXCEPT ![cache_loc[k].idx] =
                         backend[cache_loc[k].block_id]]
    /\ cache_table' = [cache_table EXCEPT ![cache_loc[k].idx] =
                          [block_id |-> cache_loc[k].block_id,
                           flags |-> {"USED", "VALID"}]]
    /\ last_read_idx' = cache_loc[k].idx
    /\ cache_pc' = [cache_pc EXCEPT ![k] = "copy"]
    /\ UNCHANGED << backend, clock_idx, cache_ret, shadow, cache_loc >>

\* cache_read_at / cache_write_at between cache_get_block and
\* cache_release_block: the copy, and for a write the DIRTY flag; the dirty
\* argument of cache_release_block is the entry's DIRTY flag.
cache_copy(k) ==
    /\ UNCHANGED cache_calls
    /\ CacheAt(k, "copy")
    /\ LET loc == cache_loc[k]
           off == loc.pos % CACHE_BLKSZ
       IN  IF loc.op = "read"
           THEN /\ cache_ret' = [op |-> "read", pos |-> loc.pos,
                                 data |-> [j \in 1 .. ClampLen(loc.pos, loc.bufsz) |->
                                             cache_data[loc.idx][off + j - 1]],
                                 hit |-> FALSE, was |-> {}]
                /\ cache_loc' = [cache_loc EXCEPT ![k].dirty =
                                    CACHE_ISDIRTY(cache_table[loc.idx])]
                /\ UNCHANGED << cache_data, cache_table, shadow >>
           ELSE /\ cache_data' = [cache_data EXCEPT ![loc.idx] =
                                     CopyIn(@, off, loc.buf, ClampLen(loc.pos, Len(loc.buf)))]
                /\ cache_table' = [cache_table EXCEPT ![loc.idx].flags = @ \cup {"DIRTY"}]
                /\ cache_loc' = [cache_loc EXCEPT ![k].dirty = TRUE]
                /\ shadow' = [shadow EXCEPT ![loc.block_id] =
                                 CopyIn(@, off, loc.buf, ClampLen(loc.pos, Len(loc.buf)))]
                /\ UNCHANGED cache_ret
    /\ cache_pc' = [cache_pc EXCEPT ![k] = "release"]
    /\ UNCHANGED << backend, clock_idx, last_read_idx, cache_locks >>

\* cache_release_block called by thread k on entry idx: the write-back, the
\* DIRTY flag, and the entry's lock when the caller owns it.
ReleaseLock(locks, k, idx) ==
    IF locks[idx] = k THEN [locks EXCEPT ![idx] = NoOwner] ELSE locks

\* The return of cache_read_at / cache_write_at through cache_release_block.
cache_release(k) ==
    /\ UNCHANGED cache_calls
    /\ CacheAt(k, "release")
    /\ \E r \in { cache_release_block(cache_table, cache_data, backend,
                                      cache_loc[k].idx, cache_loc[k].dirty) } :
          /\ cache_table' = r.tbl
          /\ backend' = r.bk
    /\ cache_locks' = ReleaseLock(cache_locks, k, cache_loc[k].idx)
    /\ cache_pc' = [cache_pc EXCEPT ![k] = "idle"]
    /\ cache_loc' = [cache_loc EXCEPT ![k] = NoCacheLoc]
    /\ cache_ret' = IF cache_loc[k].op = "write"
                    THEN [op |-> "write", pos |-> 0, data |-> << >>, hit |-> FALSE,
                          was |-> {}]
                    ELSE cache_ret
    /\ UNCHANGED << cache_data, clock_idx, last_read_idx, shadow >>

\* cache_flush is entered.
cache_flush_call(k) ==
    /\ CacheAt(k, "idle")
    /\ CacheEnter
    /\ cache_pc' = [cache_pc EXCEPT ![k] = "flush"]
    /\ cache_loc' = [cache_loc EXCEPT ![k] =
                        [NoCacheLoc EXCEPT !.op = "flush", !.was = DirtySlots]]
    /\ UNCHANGED << backend, cache_table, cache_data, clock_idx, last_read_idx,
                    cache_ret, shadow, cache_locks >>

\* cache_flush: one turn of its loop, cache_release_block on entry idx.
cache_flush_step(k) ==
    /\ UNCHANGED cache_calls
    /\ CacheAt(k, "flush")
    /\ cache_loc[k].idx < CACHE_CAPACITY
    /\ \E r \in { cache_release_block(cache_table, cache_data, backend,
                                      cache_loc[k].idx,
                                      CACHE_ISDIRTY(cache_table[cache_loc[k].idx])) } :
          /\ cache_table' = r.tbl
          /\ backend' = r.bk
    /\ cache_locks' = ReleaseLock(cache_locks, k, cache_loc[k].idx)
    /\ cache_loc' = [cache_loc EXCEPT ![k].idx = @ + 1]
    /\ UNCHANGED << cache_data, clock_idx, last_read_idx, cache_ret, shadow,
                    cache_pc >>

\* cache_flush returns.
cache_flush_return(k) ==
    /\ UNCHANGED cache_calls
    /\ CacheAt(k, "flush")
    /\ cache_loc[k].idx = CACHE_CAPACITY
    /\ cache_ret' = [op |-> "flush", pos |-> 0, data |-> << >>, hit |-> FALSE,
                     was |-> cache_loc[k].was]
    /\ cache_pc' = [cache_pc EXCEPT ![k] = "idle"]
    /\ cache_loc' = [cache_loc EXCEPT ![k] = NoCacheLoc]
    /\ UNCHANGED << backend, cache_table, cache_data, clock_idx, last_read_idx,
                    shadow, cache_locks >>

\* The running thread stops at lock_acquire on a held lock, or has returned
\* from its call, and another thread runs.
cache_suspend(k) ==
    /\ UNCHANGED cache_calls
    /\ cache_cur = k
    /\ \/ cache_pc[k] = "idle"
       \/ /\ cache_pc[k] \in { "cg_hit", "cg_load" }
          /\ cache_locks[cache_loc[k].idx] \notin { NoOwner, k }
    /\ \E n \in CacheThr \ {k} : cache_cur' = n
    /\ UNCHANGED << backend, cache_table, cache_data, clock_idx, last_read_idx,
                    cache_ret, shadow, cache_locks, cache_pc, cache_loc >>
    /\ CacheFrame

\* The timer interrupt suspends the running thread inside its cache call.
cache_preempt(k) ==
    /\ UNCHANGED cache_calls
    /\ cache_cur = k
    /\ cache_pc[k] # "idle"
    /\ \E n \in CacheThr \ {k} : cache_cur' = n
    /\ UNCHANGED << backend, cache_table, cache_data, clock_idx, last_read_idx,
                    cache_ret, shadow, cache_locks, cache_pc, cache_loc >>
    /\ CacheFrame

CacheThrNext ==
    \/ \E k \in CacheThr, pos \in DevPos, bufsz \in 1 .. MaxBufLen :
          cache_call(k, "read", pos, << >>, bufsz) /\ CacheThrFrame
    \/ \E k \in CacheThr, pos \in DevPos, buf \in Buffers \ { << >> } :
          cache_call(k, "write", pos, buf, 0) /\ CacheThrFrame
    \/ \E k \in CacheThr : cache_get_block_scan(k) /\ CacheThrFrame
    \/ \E k \in CacheThr : cache_get_block_hit(k) /\ CacheThrFrame
    \/ \E k \in CacheThr : cache_get_block_sweep(k) /\ CacheThrFrame
    \/ \E k \in CacheThr : cache_get_block_load(k) /\ CacheThrFrame
    \/ \E k \in CacheThr : cache_copy(k) /\ CacheThrFrame
    \/ \E k \in CacheThr : cache_release(k) /\ CacheThrFrame
    \/ \E k \in CacheThr : cache_flush_call(k) /\ CacheThrFrame
    \/ \E k \in CacheThr : cache_flush_step(k) /\ CacheThrFrame
    \/ \E k \in CacheThr : cache_flush_return(k) /\ CacheThrFrame
    \/ \E k \in CacheThr : cache_suspend(k)
    \/ \E k \in CacheThr : cache_preempt(k)

\* The calls of CacheThrNext without the timer interrupt: a thread runs until
\* it returns or stops at a held lock.
CacheCoopNext ==
    \/ \E k \in CacheThr, pos \in DevPos, bufsz \in 1 .. MaxBufLen :
          cache_call(k, "read", pos, << >>, bufsz) /\ CacheThrFrame
    \/ \E k \in CacheThr, pos \in DevPos, buf \in Buffers \ { << >> } :
          cache_call(k, "write", pos, buf, 0) /\ CacheThrFrame
    \/ \E k \in CacheThr : cache_get_block_scan(k) /\ CacheThrFrame
    \/ \E k \in CacheThr : cache_get_block_hit(k) /\ CacheThrFrame
    \/ \E k \in CacheThr : cache_get_block_sweep(k) /\ CacheThrFrame
    \/ \E k \in CacheThr : cache_get_block_load(k) /\ CacheThrFrame
    \/ \E k \in CacheThr : cache_copy(k) /\ CacheThrFrame
    \/ \E k \in CacheThr : cache_release(k) /\ CacheThrFrame
    \/ \E k \in CacheThr : cache_flush_call(k) /\ CacheThrFrame
    \/ \E k \in CacheThr : cache_flush_step(k) /\ CacheThrFrame
    \/ \E k \in CacheThr : cache_flush_return(k) /\ CacheThrFrame
    \/ \E k \in CacheThr : cache_suspend(k)

\* Every block is held by at most one VALID entry.
OneSlotPerBlock ==
    \A i \in Slot, j \in Slot :
        ( /\ CACHE_ISVALID(cache_table[i]) /\ CACHE_ISVALID(cache_table[j])
          /\ cache_table[i].block_id = cache_table[j].block_id ) => i = j

\* Every DIRTY entry is VALID.
DirtyIsValid ==
    \A i \in Slot : CACHE_ISDIRTY(cache_table[i]) => CACHE_ISVALID(cache_table[i])

\* The step is the return of cache_flush: of a thread, or of the one caller
\* whose cache_flush runs from entry to return.
FlushReturns ==
    \/ \E k \in CacheThr : cache_pc[k] = "flush" /\ cache_pc'[k] = "idle"
    \/ /\ UNCHANGED << cache_cur, cache_pc, cache_loc >>
       /\ cache_ret'.op = "flush"

\* C17: at most one VALID entry holds a given block_id and every DIRTY entry
\* is VALID; when cache_flush returns no entry is DIRTY and the device holds
\* the contents of every entry that was DIRTY when it was called.
C17_CacheTableInvariants ==
    [][/\ OneSlotPerBlock /\ OneSlotPerBlock'
       /\ DirtyIsValid /\ DirtyIsValid'
       /\ FlushReturns =>
             /\ \A i \in Slot : ~CACHE_ISDIRTY(cache_table'[i])
             /\ \A w \in cache_ret'.was : backend'[w.block_id] = w.data]_vars


\* ---- several threads inside cache_get_block ----

\* Cache calls in a run in which the threads are suspended inside
\* cache_get_block: enough to fill both entries and evict one of them.
MaxRaceCalls == 4

\* The calls of such a run: one byte read or written at the start of a block.
RacePos == { b * CACHE_BLKSZ : b \in BlockId }

\* cache_read_at / cache_write_at up to their call of cache_get_block, in a
\* run of MaxRaceCalls calls.
cache_call_race(k, op, pos, buf, bufsz) ==
    /\ cache_calls < MaxRaceCalls
    /\ CacheAt(k, "idle")
    /\ cache_calls' = cache_calls + 1
    /\ cache_pc' = [cache_pc EXCEPT ![k] = "cg_scan"]
    /\ cache_loc' = [cache_loc EXCEPT ![k] =
                        [NoCacheLoc EXCEPT !.op = op, !.pos = pos, !.buf = buf,
                                           !.bufsz = bufsz,
                                           !.block_id = pos \div CACHE_BLKSZ]]
    /\ UNCHANGED << backend, cache_table, cache_data, clock_idx, last_read_idx,
                    cache_ret, shadow, cache_locks >>

CacheRaceNext ==
    \/ \E k \in CacheThr, pos \in RacePos :
          cache_call_race(k, "read", pos, << >>, 1) /\ CacheThrFrame
    \/ \E k \in CacheThr, pos \in RacePos :
          cache_call_race(k, "write", pos, << 1 >>, 0) /\ CacheThrFrame
    \/ \E k \in CacheThr : cache_get_block_scan(k) /\ CacheThrFrame
    \/ \E k \in CacheThr : cache_get_block_hit(k) /\ CacheThrFrame
    \/ \E k \in CacheThr : cache_get_block_sweep(k) /\ CacheThrFrame
    \/ \E k \in CacheThr : cache_get_block_load(k) /\ CacheThrFrame
    \/ \E k \in CacheThr : cache_copy(k) /\ CacheThrFrame
    \/ \E k \in CacheThr : cache_release(k) /\ CacheThrFrame
    \/ \E k \in CacheThr : cache_suspend(k)
    \/ \E k \in CacheThr : cache_preempt(k)

\* Thread k has its buffer from cache_get_block and has not released it.
HasBlock(k) == cache_pc[k] \in { "copy", "release" }

\* C29: with several threads in the cache that can be suspended inside
\* cache_get_block, the buffer a thread got for position pos holds block
\* pos / CACHE_BLKSZ: the entry it matched or chose as victim is VALID for
\* its block while it uses it, and no two threads use one entry for
\* different blocks.
C29_BufferHoldsBlock ==
    /\ \A k \in CacheThr :
         HasBlock(k)
         => /\ CACHE_ISVALID(cache_table[cache_loc[k].idx])
            /\ cache_table[cache_loc[k].idx].block_id = cache_loc[k].block_id
    /\ \A k \in CacheThr, n \in CacheThr :
         (HasBlock(k) /\ HasBlock(n) /\ cache_loc[k].idx = cache_loc[n].idx)
         => cache_loc[k].block_id = cache_loc[n].block_id

\* ======================================================================
\* KTFS                                                        (sys/ktfs.c)
\* ======================================================================

\* The volume is modelled in cells: a cell is one data byte, one block
\* pointer or one directory entry, so a block of KTFS_BLKSZ cells holds
\* KTFS_BLKSZ pointers (128 in the source) or KTFS_BLKSZ directory entries (32
\* in the source).  The filesystem sits on the block cache, which presents
\* the device as one byte array and never hands out more than the rest of a
\* block; every access below stays inside one block.
KTFS_BLKSZ == 2
KTFS_NUM_DIRECT_DATA_BLOCKS == 3
KTFS_NUM_DINDIRECT_BLOCKS == 2

\* Data blocks of the volume (one bitmap bit each), inodes, file names.
NumDataBlocks == 14
NumInodes == 4
NumNames == 3

\* Filesystem calls made in a run, and the longest buffer written.
MaxFsCalls == 5
MaxWriteLen == 2

PtrsPerBlock == KTFS_BLKSZ
FirstDindirect == KTFS_NUM_DIRECT_DATA_BLOCKS + PtrsPerBlock
MaxFileBlocks == FirstDindirect + KTFS_NUM_DINDIRECT_BLOCKS * PtrsPerBlock * PtrsPerBlock
MaxFileBytes == MaxFileBlocks * KTFS_BLKSZ

DBlk == 0 .. (NumDataBlocks - 1)
Ino == 0 .. (NumInodes - 1)
Name == 1 .. NumNames
ROOT_INO == 0

\* A directory entry {inode, name} packed into one cell, and its fields; name
\* 0 is the name of no file.  Every cell value reads as some entry.
DentryCell(ino, nm) == ino * (NumNames + 1) + nm
DentInode(c) == (c \div (NumNames + 1)) % NumInodes
DentName(c) == c % (NumNames + 1)

\* An inode with every pointer field equal to w.
InodeOf(sz, w) ==
    [size |-> sz,
     block |-> [k \in 0 .. (KTFS_NUM_DIRECT_DATA_BLOCKS - 1) |-> w],
     indirect |-> w,
     dindirect |-> [k \in 0 .. (KTFS_NUM_DINDIRECT_BLOCKS - 1) |-> w]]

\* cache_readat / cache_writeat of one cell of data block b.  A block number
\* past the end of the volume reaches no cell of the model.
BlkRead(disk, b, off) ==
    IF b \in DBlk THEN disk.data[b][off] ELSE 0

BlkWrite(disk, b, off, v) ==
    IF b \in DBlk THEN [disk EXCEPT !.data[b][off] = v] ELSE disk

\* ktfs_get_new_block: the first clear bit of the bitmap is set and its index
\* returned; 0 is returned when every bit is set.
ktfs_get_new_block(disk) ==
    LET free == { b \in DBlk : disk.bitmap[b] = 0 }
    IN  IF free = {} THEN [id |-> 0, disk |-> disk]
        ELSE LET b == CHOOSE x \in free : \A y \in free : x <= y
             IN  [id |-> b, disk |-> [disk EXCEPT !.bitmap[b] = 1]]

\* ktfs_release_block: the bit of block_id is cleared.
ktfs_release_block(disk, block_id) ==
    IF block_id \in DBlk THEN [disk EXCEPT !.bitmap[block_id] = 0] ELSE disk

\* Position of a file block among the pointers: "direct", "indirect" or
\* "dindirect", with the dindirect instance and the two offsets.
BlockPath(dblock_id) ==
    IF dblock_id < KTFS_NUM_DIRECT_DATA_BLOCKS
    THEN [level |-> "direct", inst |-> 0, adj |-> dblock_id, off1 |-> 0, off2 |-> 0]
    ELSE IF dblock_id - KTFS_NUM_DIRECT_DATA_BLOCKS < PtrsPerBlock
    THEN [level |-> "indirect", inst |-> 0, adj |-> dblock_id, off1 |-> 0,
          off2 |-> dblock_id - KTFS_NUM_DIRECT_DATA_BLOCKS]
    ELSE LET inst == IF dblock_id - FirstDindirect < PtrsPerBlock * PtrsPerBlock
                     THEN 0 ELSE 1
             adj == dblock_id - FirstDindirect - inst * PtrsPerBlock * PtrsPerBlock
         IN  [level |-> "dindirect", inst |-> inst, adj |-> adj,
              off1 |-> adj \div PtrsPerBlock, off2 |-> adj % PtrsPerBlock]

\* The data block that read_data_blockat / write_data_blockat reach for file
\* block dblock_id of inode.
LeafBlock(disk, inode, dblock_id) ==
    LET p == BlockPath(dblock_id)
    IN  IF p.level = "direct" THEN inode.block[dblock_id]
        ELSE IF p.level = "indirect" THEN BlkRead(disk, inode.indirect, p.off2)
        ELSE BlkRead(disk, BlkRead(disk, inode.dindirect[p.inst], p.off1), p.off2)

read_data_blockat(disk, inode, dblock_id, off) ==
    BlkRead(disk, LeafBlock(disk, inode, dblock_id), off)

write_data_blockat(disk, inode, dblock_id, off, v) ==
    BlkWrite(disk, LeafBlock(disk, inode, dblock_id), off, v)

\* allocate_new_data_block for file block dblock_id of inode: the new leaf is
\* taken first, then the pointer blocks the position needs.  A block number
\* of 0 from ktfs_get_new_block is taken for "no block left".
allocate_new_data_block(disk, inode, dblock_id) ==
    LET p == BlockPath(dblock_id)
        n == ktfs_get_new_block(disk)
        fail(d) == [ok |-> FALSE, disk |-> d, inode |-> inode]
    IN  IF n.id = 0 THEN fail(n.disk)
        ELSE IF p.level = "direct"
        THEN [ok |-> TRUE, disk |-> n.disk,
              inode |-> [inode EXCEPT !.block[dblock_id] = n.id]]
        ELSE IF p.level = "indirect"
        THEN LET t == IF p.off2 = 0 THEN ktfs_get_new_block(n.disk)
                      ELSE [id |-> inode.indirect, disk |-> n.disk]
             IN  IF p.off2 = 0 /\ t.id = 0 THEN fail(t.disk)
                 ELSE [ok |-> TRUE,
                       disk |-> BlkWrite(t.disk, t.id, p.off2, n.id),
                       inode |-> [inode EXCEPT !.indirect = t.id]]
        ELSE LET t == IF p.adj = 0 THEN ktfs_get_new_block(n.disk)
                      ELSE [id |-> inode.dindirect[p.inst], disk |-> n.disk]
             IN  IF p.adj = 0 /\ t.id = 0 THEN fail(t.disk)
                 ELSE LET ino1 == [inode EXCEPT !.dindirect[p.inst] = t.id]
                          u == IF p.off2 = 0 THEN ktfs_get_new_block(t.disk)
                               ELSE [id |-> BlkRead(t.disk, t.id, p.off1),
                                     disk |-> t.disk]
                      IN  IF p.off2 = 0 /\ u.id = 0
                          THEN [ok |-> FALSE, disk |-> u.disk, inode |-> ino1]
                          ELSE LET d1 == IF p.off2 = 0
                                         THEN BlkWrite(u.disk, t.id, p.off1, u.id)
                                         ELSE u.disk
                               IN  [ok |-> TRUE,
                                    disk |-> BlkWrite(d1, u.id, p.off2, n.id),
                                    inode |-> ino1]

\* release_data_block for file block dblock_id of inode: the leaf, and the
\* pointer block whose first entry the leaf was.
release_data_block(disk, inode, dblock_id) ==
    LET p == BlockPath(dblock_id)
    IN  IF p.level = "direct"
        THEN ktfs_release_block(disk, inode.block[dblock_id])
        ELSE IF p.level = "indirect"
        THEN LET d1 == IF p.off2 = 0 THEN ktfs_release_block(disk, inode.indirect)
                       ELSE disk
             IN  ktfs_release_block(d1, BlkRead(d1, inode.indirect, p.off2))
        ELSE LET d1 == IF p.adj = 0
                       THEN ktfs_release_block(disk, inode.dindirect[p.inst])
                       ELSE disk
                 idx1 == BlkRead(d1, inode.dindirect[p.inst], p.off1)
                 d2 == IF p.off2 = 0 THEN ktfs_release_block(d1, idx1) ELSE d1
             IN  ktfs_release_block(d2, BlkRead(d2, idx1, p.off2))

\* ktfs_get_new_inode: the first clear bit of the in-memory inode bitmap.
ktfs_get_new_inode(ibm) ==
    LET free == { k \in Ino : ibm[k] = 0 }
    IN  IF free = {} THEN [ok |-> FALSE, ino |-> 0, ibm |-> ibm]
        ELSE LET k == CHOOSE x \in free : \A y \in free : x <= y
             IN  [ok |-> TRUE, ino |-> k, ibm |-> [ibm EXCEPT ![k] = 1]]

ktfs_release_inode(ibm, ino) ==
    IF ino \in Ino THEN [ibm EXCEPT ![ino] = 0] ELSE ibm

\* The directory entry at index k of the root directory.
Dentry(disk, k) ==
    read_data_blockat(disk, disk.inode[ROOT_INO], k \div KTFS_BLKSZ, k % KTFS_BLKSZ)

\* The scan of the root directory for a name, as in ktfs_open, ktfs_create and
\* ktfs_delete: the index of the first entry with that name, -1 if none.
DirFind(disk, nm) ==
    LET hits == { k \in 0 .. (disk.inode[ROOT_INO].size - 1) :
                     DentName(Dentry(disk, k)) = nm }
    IN  IF hits = {} THEN -1 ELSE CHOOSE x \in hits : \A y \in hits : x <= y

\* init_inode_bitmap: the root inode and the inode of every directory entry.
init_inode_bitmap(disk) ==
    [k \in Ino |->
        IF k = ROOT_INO
           \/ \E e \in 0 .. (disk.inode[ROOT_INO].size - 1) :
                 DentInode(Dentry(disk, e)) = k
        THEN 1 ELSE 0]

\* The bytes of the file with inode number ino, block by block.
FileContents(disk, ino) ==
    [k \in 1 .. disk.inode[ino].size |->
        read_data_blockat(disk, disk.inode[ino], (k - 1) \div KTFS_BLKSZ,
                          (k - 1) % KTFS_BLKSZ)]

\* ---- volumes a mount can find ----

ZeroDisk ==
    [bitmap |-> [b \in DBlk |-> 0],
     inode  |-> [k \in Ino |-> InodeOf(0, 0)],
     data   |-> [b \in DBlk |-> [o \in 0 .. (KTFS_BLKSZ - 1) |-> 0]]]

\* A volume with an empty root directory and no data block in use.
EmptyVolume == ZeroDisk

\* A volume whose root directory occupies data block 0 and holds one empty
\* file, name 1, inode 1.
RootAtZeroVolume ==
    [ZeroDisk EXCEPT !.bitmap[0] = 1,
                     !.inode[ROOT_INO].size = 1,
                     !.data[0][0] = DentryCell(1, 1)]

\* A volume as the code itself builds it: data block 0 is marked used and
\* unreferenced, the root directory is in block 1 and holds file name 1,
\* inode 1, whose KTFS_BLKSZ + 1 bytes are in blocks 2 and 3.
UsedVolume ==
    [ZeroDisk EXCEPT !.bitmap = [b \in DBlk |-> IF b <= 3 THEN 1 ELSE 0],
                     !.inode[ROOT_INO] = [InodeOf(1, 0) EXCEPT !.block[0] = 1],
                     !.inode[1] = [InodeOf(KTFS_BLKSZ + 1, 0) EXCEPT !.block[0] = 2,
                                                                    !.block[1] = 3],
                     !.data[1][0] = DentryCell(1, 1),
                     !.data[2] = [o \in 0 .. (KTFS_BLKSZ - 1) |-> 1],
                     !.data[3] = [o \in 0 .. (KTFS_BLKSZ - 1) |-> 1]]

\* A volume whose root directory fills one directory block and begins a
\* second: three files, names 1 to 3 with inodes 1 to 3, of 1, 0 and
\* KTFS_BLKSZ + 1 bytes.
FullDirVolume ==
    [ZeroDisk EXCEPT !.bitmap = [b \in DBlk |-> IF b <= 5 THEN 1 ELSE 0],
                     !.inode[ROOT_INO] = [InodeOf(KTFS_BLKSZ + 1, 0) EXCEPT
                                            !.block[0] = 1, !.block[1] = 2],
                     !.inode[1] = [InodeOf(1, 0) EXCEPT !.block[0] = 3],
                     !.inode[3] = [InodeOf(KTFS_BLKSZ + 1, 0) EXCEPT !.block[0] = 4,
                                                                    !.block[1] = 5],
                     !.data[1] = [o \in 0 .. (KTFS_BLKSZ - 1) |-> DentryCell(o + 1, o + 1)],
                     !.data[2][0] = DentryCell(KTFS_BLKSZ + 1, KTFS_BLKSZ + 1),
                     !.data[3][0] = 1,
                     !.data[4] = [o \in 0 .. (KTFS_BLKSZ - 1) |-> 1],
                     !.data[5][0] = 1]

NoFsRet == [op |-> "none", name |-> 0, pos |-> 0, buf |-> << >>, err |-> "none",
            val |-> 0, ioptr |-> "NULL", before |-> "NULL"]

NoSeq == [stage |-> "none", name |-> 0, bitmap |-> << >>, ibm |-> << >>,
          rootsize |-> 0, room |-> 0, gone |-> {}]

\* Before fsmount: no volume, no inode bitmap, no open file.
KtfsInit ==
    /\ ktfs_disk = ZeroDisk
    /\ inode_bitmap = [k \in Ino |-> 0]
    /\ open_files = << >>
    /\ ktfs_ret = NoFsRet
    /\ ktfs_calls = 0
    /\ ktfs_shadow = [k \in Ino |-> << >>]
    /\ ktfs_ext = [k \in Ino |-> "no"]
    /\ ktfs_seq = NoSeq

\* The volumes fsmount is given.
Volumes == {EmptyVolume, RootAtZeroVolume, UsedVolume, FullDirVolume}

\* Words an uninitialised inode field may hold.
StaleWord == {0, NumDataBlocks - 1}

\* ---- ktfs_open ----

\* What the caller's handle pointer may hold before fsopen, and the pointer to
\* the seekable endpoint of the file named nm.
IoPtr == { "NULL", "old" }
IoOf(nm) == << "seekio", nm >>

\* The number of directory blocks ktfs_open scans, without the round-up for a
\* last block that is not full.
DirBlkCnt_noround(size) == size \div KTFS_BLKSZ

\* The number of directory blocks ktfs_open, ktfs_create and ktfs_delete
\* scan: size / KTFS_BLKSZ, one more when the last block is not full.
DirBlkCnt(size) ==
    IF size % KTFS_BLKSZ # 0 THEN size \div KTFS_BLKSZ + 1 ELSE size \div KTFS_BLKSZ

\* The scan of ktfs_open: block by block, entry by entry, the index of the
\* first entry with the name, -1 once every entry of the directory was read.
OpenScan(disk, nm) ==
    LET root == disk.inode[ROOT_INO]
        hits == { k \in 0 .. (DirBlkCnt(root.size) * KTFS_BLKSZ - 1) :
                    /\ k < root.size
                    /\ DentName(Dentry(disk, k)) = nm }
    IN  IF hits = {} THEN -1 ELSE CHOOSE x \in hits : \A y \in hits : x <= y

\* ktfs_open of name nm with the open-file list files; ioptr is what the
\* caller's pointer holds.  The handle gets the inode's size, and the seekable
\* endpoint made over it takes that size as its end.
ktfs_open(disk, files, nm, ioptr) ==
    LET idx == OpenScan(disk, nm)
        ino == DentInode(Dentry(disk, idx))
    IN  IF idx = -1
        THEN [err |-> "ENOENT", files |-> files, ioptr |-> ioptr]
        ELSE [err |-> "none",
              files |-> << [name |-> nm, inode |-> ino,
                            file_size |-> disk.inode[ino].size,
                            end |-> disk.inode[ino].size] >> \o files,
              ioptr |-> IoOf(nm)]

\* seekio_cntl(IOCTL_GETEND) on the seekable endpoint of handle h.
seekio_cntl_getend(h) == h.end

\* ---- ktfs_create ----

\* ktfs_create of name nm; w is what the uninitialised fields of the new
\* inode hold.  Result: error, volume, inode bitmap, inode number.
ktfs_create(disk, ibm, nm, w) ==
    LET root == disk.inode[ROOT_INO]
        blkoff == root.size % KTFS_BLKSZ
        blkno == root.size \div KTFS_BLKSZ
        a == IF blkoff = 0 THEN allocate_new_data_block(disk, root, blkno)
             ELSE [ok |-> TRUE, disk |-> disk, inode |-> root]
        d1 == IF blkoff = 0 THEN [a.disk EXCEPT !.inode[ROOT_INO] = a.inode]
              ELSE disk
        g == ktfs_get_new_inode(ibm)
        d2 == write_data_blockat(d1, a.inode, blkno, blkoff, DentryCell(g.ino, nm))
        d3 == [d2 EXCEPT !.inode[ROOT_INO] = [a.inode EXCEPT !.size = @ + 1],
                         !.inode[g.ino] = InodeOf(0, w)]
    IN  IF DirFind(disk, nm) # -1
        THEN [err |-> "EINVAL", disk |-> disk, ibm |-> ibm, ino |-> 0]
        ELSE IF ~a.ok
        THEN [err |-> "ENODATABLKS", disk |-> a.disk, ibm |-> ibm, ino |-> 0]
        ELSE IF ~g.ok
        THEN [err |-> "ENOINODEBLKS", disk |-> d1, ibm |-> ibm, ino |-> 0]
        ELSE [err |-> "none", disk |-> d3, ibm |-> g.ibm, ino |-> g.ino]

\* ---- ktfs_cntl(IOCTL_SETEND) / ktfs_ext_len ----

\* The allocation loop of ktfs_ext_len: one block after the other, the inode
\* written back after each.
RECURSIVE ExtLoop(_, _, _, _, _)
ExtLoop(disk, ino, inode, i, last) ==
    IF i > last THEN [ok |-> TRUE, disk |-> disk]
    ELSE LET a == allocate_new_data_block(disk, inode, i)
         IN  IF ~a.ok THEN [ok |-> FALSE, disk |-> a.disk]
             ELSE ExtLoop([a.disk EXCEPT !.inode[ino] = a.inode], ino, a.inode,
                          i + 1, last)

\* ktfs_ext_len on handle h: no shrink; the sizes are set first, the blocks
\* allocated afterwards.  Result: error, volume, the handle's file_size.
ktfs_ext_len(disk, h, len) ==
    IF len <= h.file_size \/ len = 0
    THEN [err |-> "none", disk |-> disk, file_size |-> h.file_size]
    ELSE LET d1 == [disk EXCEPT !.inode[h.inode].size = len]
             first == IF h.file_size = 0 THEN 0
                      ELSE ((h.file_size - 1) \div KTFS_BLKSZ) + 1
             r == ExtLoop(d1, h.inode, d1.inode[h.inode], first,
                          (len - 1) \div KTFS_BLKSZ)
         IN  [err |-> IF r.ok THEN "none" ELSE "ENODATABLKS",
              disk |-> r.disk, file_size |-> len]

\* ---- ktfs_delete ----

\* The release loop of ktfs_delete: file blocks i, i-1, ..., 0.
RECURSIVE ReleaseLoop(_, _, _)
ReleaseLoop(disk, inode, i) ==
    IF i < 0 THEN disk
    ELSE ReleaseLoop(release_data_block(disk, inode, i), inode, i - 1)

\* delete_file_from_list: the first open file with that name leaves the list.
delete_file_from_list(files, nm) ==
    LET hits == { k \in 1 .. Len(files) : files[k].name = nm }
    IN  IF hits = {} THEN files
        ELSE LET k == CHOOSE x \in hits : \A y \in hits : x <= y
             IN  SubSeq(files, 1, k - 1) \o SubSeq(files, k + 1, Len(files))

\* ktfs_delete of name nm: the file's blocks and inode are released, the last
\* directory entry moves into the freed slot, the directory shrinks by one
\* entry and gives its last block back when that block becomes empty.
ktfs_delete(disk, ibm, nm) ==
    LET idx == DirFind(disk, nm)
        root == disk.inode[ROOT_INO]
        ino == DentInode(Dentry(disk, idx))
        my_inode == disk.inode[ino]
        d1 == ReleaseLoop(disk, my_inode,
                          ((my_inode.size + KTFS_BLKSZ - 1) \div KTFS_BLKSZ) - 1)
        last == root.size - 1
        last_dentry == read_data_blockat(d1, root, last \div KTFS_BLKSZ,
                                         last % KTFS_BLKSZ)
        d2 == write_data_blockat(d1, root, idx \div KTFS_BLKSZ, idx % KTFS_BLKSZ,
                                 last_dentry)
        d3 == IF last % KTFS_BLKSZ = 0
              THEN release_data_block(d2, root, last \div KTFS_BLKSZ) ELSE d2
    IN  IF idx = -1
        THEN [err |-> "ENOENT", disk |-> disk, ibm |-> ibm, ino |-> 0]
        ELSE [err |-> "none",
              disk |-> [d3 EXCEPT !.inode[ROOT_INO].size = @ - 1],
              ibm |-> ktfs_release_inode(ibm, ino), ino |-> ino]

\* ---- ktfs_readat / ktfs_writeat ----

\* ktfs_readat on handle h: -EINVAL at or past the end of the file, otherwise
\* the bytes from pos, cut at the end of the file.
ktfs_readat(disk, h, pos, len) ==
    IF pos >= h.file_size THEN [err |-> "EINVAL", data |-> << >>]
    ELSE LET n == IF pos + len > h.file_size THEN h.file_size - pos ELSE len
             inode == disk.inode[h.inode]
         IN  [err |-> "none",
              data |-> [k \in 1 .. n |->
                          read_data_blockat(disk, inode,
                                            (pos + k - 1) \div KTFS_BLKSZ,
                                            (pos + k - 1) % KTFS_BLKSZ)]]

\* The copy loop of ktfs_writeat, byte k of n onwards.
RECURSIVE WriteLoop(_, _, _, _, _, _)
WriteLoop(disk, inode, pos, buf, k, n) ==
    IF k > n THEN disk
    ELSE WriteLoop(write_data_blockat(disk, inode, (pos + k - 1) \div KTFS_BLKSZ,
                                      (pos + k - 1) % KTFS_BLKSZ, buf[k]),
                   inode, pos, buf, k + 1, n)

\* ktfs_writeat on handle h: -EINVAL at or past the end of the file, otherwise
\* the bytes are written from pos, cut at the end of the file; the file never
\* grows.
ktfs_writeat(disk, h, pos, buf) ==
    IF pos >= h.file_size THEN [err |-> "EINVAL", val |-> 0, disk |-> disk]
    ELSE LET n == IF pos + Len(buf) > h.file_size THEN h.file_size - pos
                  ELSE Len(buf)
         IN  [err |-> "none", val |-> n,
              disk |-> WriteLoop(disk, disk.inode[h.inode], pos, buf, 1, n)]

\* The open file with name nm (one handle per name is kept open).
Handle(nm) ==
    open_files[CHOOSE k \in 1 .. Len(open_files) : open_files[k].name = nm]

IsOpen(nm) == \E k \in 1 .. Len(open_files) : open_files[k].name = nm

\* A filesystem call on the mounted volume.
FsCall == /\ ktfs_calls > 0
          /\ ktfs_calls < MaxFsCalls
          /\ ktfs_calls' = ktfs_calls + 1

\* The contents of every file on a volume.
Snapshot(disk) == [k \in Ino |-> FileContents(disk, k)]

\* File offsets at which the next byte lies in a new block, behind the direct
\* pointers, behind the indirect block, in the second pointer block of a
\* dindirect tree, and in the second dindirect tree.
Boundary ==
    { KTFS_BLKSZ,
      KTFS_BLKSZ * KTFS_NUM_DIRECT_DATA_BLOCKS,
      KTFS_BLKSZ * FirstDindirect,
      KTFS_BLKSZ * (FirstDindirect + PtrsPerBlock),
      KTFS_BLKSZ * (FirstDindirect + PtrsPerBlock * PtrsPerBlock) }

\* Lengths asked of SETEND: one byte past each boundary, nothing, everything.
ExtLen == {0, MaxFileBytes} \cup { b + 1 : b \in Boundary }

\* Positions given to writeat: the byte before each boundary, and the ends of
\* the files.
WritePos == ExtLen \cup { b - 1 : b \in Boundary }

\* Buffers given to writeat.
WriteBuf == { buf \in UNION { [1 .. n -> Byte] : n \in 0 .. MaxWriteLen } :
                 Len(buf) > 0 => buf[1] = 1 }

\* Bookkeeping of a call that is no part of a create / SETEND / delete
\* sequence.
SeqBreak == [NoSeq EXCEPT !.room = ktfs_seq.room, !.gone = ktfs_seq.gone]

\* fsmount / ktfs_mount of volume v: the inode bitmap is built from the root
\* directory, no file is open.
ktfs_mount(v) ==
    /\ ktfs_calls = 0
    /\ ktfs_calls' = 1
    /\ ktfs_disk' = v
    /\ inode_bitmap' = init_inode_bitmap(v)
    /\ open_files' = << >>
    /\ ktfs_ret' = [NoFsRet EXCEPT !.op = "mount"]
    /\ ktfs_shadow' = [k \in Ino |-> FileContents(v, k)]
    /\ UNCHANGED << ktfs_ext, ktfs_seq >>

\* fscreate(nm).
KtfsCreate(nm, w) ==
    /\ FsCall
    /\ \E r \in { ktfs_create(ktfs_disk, inode_bitmap, nm, w) } :
         /\ ktfs_disk' = r.disk
         /\ inode_bitmap' = r.ibm
         /\ ktfs_ret' = [NoFsRet EXCEPT !.op = "create", !.name = nm, !.err = r.err]
         /\ ktfs_shadow' = Snapshot(r.disk)
         /\ ktfs_ext' = IF r.err = "none" THEN [ktfs_ext EXCEPT ![r.ino] = "no"]
                        ELSE ktfs_ext
         /\ ktfs_seq' =
              IF r.err = "none"
              THEN [stage |-> "created", name |-> nm, bitmap |-> ktfs_disk.bitmap,
                    ibm |-> inode_bitmap,
                    rootsize |-> ktfs_disk.inode[ROOT_INO].size,
                    room |-> IF ktfs_seq.room > 0 THEN ktfs_seq.room - 1 ELSE 0,
                    gone |-> ktfs_seq.gone]
              ELSE IF r.err = "EINVAL" \/ nm \in ktfs_seq.gone THEN SeqBreak
              ELSE [SeqBreak EXCEPT !.stage = "refused"]
    /\ UNCHANGED open_files

\* fsopen(nm), for a file that is not open yet: one handle per file is in use
\* at a time, and a handle is used only while it is on the open-file list
\* (ktfs_delete and ktfs_close free the handle they take off the list).  The
\* caller's pointer holds ioptr before the call.
KtfsOpen(nm, ioptr) ==
    /\ FsCall
    /\ ~ IsOpen(nm)
    /\ \E r \in { ktfs_open(ktfs_disk, open_files, nm, ioptr) } :
         /\ open_files' = r.files
         /\ ktfs_ret' = [NoFsRet EXCEPT !.op = "open", !.name = nm, !.err = r.err,
                                        !.ioptr = r.ioptr, !.before = ioptr]
    /\ ktfs_shadow' = Snapshot(ktfs_disk)
    /\ ktfs_seq' = IF ktfs_seq.name = nm THEN ktfs_seq ELSE SeqBreak
    /\ UNCHANGED << ktfs_disk, inode_bitmap, ktfs_ext >>

\* ioctl(IOCTL_GETEND) on the handle of nm.
KtfsGetEnd(nm) ==
    /\ FsCall
    /\ IsOpen(nm)
    /\ ktfs_ret' = [NoFsRet EXCEPT !.op = "getend", !.name = nm,
                                   !.val = seekio_cntl_getend(Handle(nm))]
    /\ ktfs_shadow' = Snapshot(ktfs_disk)
    /\ ktfs_seq' = IF ktfs_seq.name = nm THEN ktfs_seq ELSE SeqBreak
    /\ UNCHANGED << ktfs_disk, inode_bitmap, open_files, ktfs_ext >>

\* ioclose on the handle of nm.
KtfsClose(nm) ==
    /\ FsCall
    /\ IsOpen(nm)
    /\ open_files' = delete_file_from_list(open_files, nm)
    /\ ktfs_ret' = [NoFsRet EXCEPT !.op = "close", !.name = nm]
    /\ ktfs_shadow' = Snapshot(ktfs_disk)
    /\ ktfs_seq' = SeqBreak
    /\ UNCHANGED << ktfs_disk, inode_bitmap, ktfs_ext >>

\* ioctl(IOCTL_SETEND, len) on the handle of nm.
KtfsSetEnd(nm, len) ==
    /\ FsCall
    /\ IsOpen(nm)
    /\ \E h \in { Handle(nm) } :
       \E r \in { ktfs_ext_len(ktfs_disk, h, len) } :
         /\ ktfs_disk' = r.disk
         /\ open_files' = [k \in 1 .. Len(open_files) |->
                             IF open_files[k].name = nm
                             THEN [open_files[k] EXCEPT
                                     !.file_size = r.file_size,
                                     !.end = IF r.err = "none" THEN len ELSE @]
                             ELSE open_files[k]]
         /\ ktfs_ret' = [NoFsRet EXCEPT !.op = "setend", !.name = nm, !.pos = len,
                                        !.err = r.err]
         /\ ktfs_shadow' = Snapshot(r.disk)
         /\ ktfs_ext' =
              IF r.err # "none" THEN [ktfs_ext EXCEPT ![h.inode] = "failed"]
              ELSE IF len > h.file_size /\ ktfs_ext[h.inode] = "no"
              THEN [ktfs_ext EXCEPT ![h.inode] = "yes"]
              ELSE ktfs_ext
         /\ ktfs_seq' = IF ktfs_seq.name = nm /\ ktfs_seq.stage = "created"
                        THEN [ktfs_seq EXCEPT !.stage = "extended", !.room = 0]
                        ELSE [SeqBreak EXCEPT !.room = 0]
    /\ UNCHANGED inode_bitmap

\* iowriteat(pos, buf) on the handle of nm.  ktfs_shadow becomes what the
\* files held before the call with the accepted bytes laid over the range
\* written.
KtfsWriteAt(nm, pos, buf) ==
    /\ FsCall
    /\ IsOpen(nm)
    /\ \E h \in { Handle(nm) } :
       \E r \in { ktfs_writeat(ktfs_disk, h, pos, buf) } :
         /\ ktfs_disk' = r.disk
         /\ ktfs_ret' = [NoFsRet EXCEPT !.op = "writeat", !.name = nm, !.pos = pos,
                                        !.buf = buf, !.err = r.err, !.val = r.val]
         /\ \E old \in { Snapshot(ktfs_disk) } :
              ktfs_shadow' =
                [old EXCEPT ![h.inode] =
                   [b \in DOMAIN @ |->
                      IF r.err = "none" /\ pos < b /\ b <= pos + r.val
                      THEN buf[b - pos] ELSE @[b]]]
    /\ ktfs_seq' = IF ktfs_seq.name = nm THEN ktfs_seq ELSE SeqBreak
    /\ UNCHANGED << inode_bitmap, open_files, ktfs_ext >>

\* fsdelete(nm).
KtfsDelete(nm) ==
    /\ FsCall
    /\ \E r \in { ktfs_delete(ktfs_disk, inode_bitmap, nm) } :
         /\ ktfs_disk' = r.disk
         /\ inode_bitmap' = r.ibm
         /\ open_files' = IF r.err = "none" THEN delete_file_from_list(open_files, nm)
                          ELSE open_files
         /\ ktfs_ret' = [NoFsRet EXCEPT !.op = "delete", !.name = nm, !.err = r.err]
         /\ ktfs_shadow' = Snapshot(r.disk)
         /\ ktfs_seq' =
              IF r.err # "none" THEN SeqBreak
              ELSE IF ktfs_seq.name = nm /\ ktfs_seq.stage \in {"created", "extended"}
              THEN [ktfs_seq EXCEPT !.stage = "deleted", !.room = @ + 1,
                                    !.gone = @ \cup {nm}]
              ELSE [SeqBreak EXCEPT !.room = @ + 1, !.gone = @ \cup {nm}]
    /\ UNCHANGED ktfs_ext

KtfsNext ==
    \/ (\E v \in Volumes : ktfs_mount(v)) /\ KtfsFrame
    \/ (\E nm \in Name, w \in StaleWord : KtfsCreate(nm, w)) /\ KtfsFrame
    \/ (\E nm \in Name, ioptr \in IoPtr : KtfsOpen(nm, ioptr)) /\ KtfsFrame
    \/ (\E nm \in Name : KtfsGetEnd(nm)) /\ KtfsFrame
    \/ (\E nm \in Name : KtfsClose(nm)) /\ KtfsFrame
    \/ (\E nm \in Name, len \in ExtLen : KtfsSetEnd(nm, len)) /\ KtfsFrame
    \/ (\E nm \in Name, pos \in WritePos, buf \in WriteBuf :
           KtfsWriteAt(nm, pos, buf)) /\ KtfsFrame
    \/ (\E nm \in Name : KtfsDelete(nm)) /\ KtfsFrame

\* ---- properties of KTFS ----

\* The handle the last writeat went through.
WrittenHandle == Handle(ktfs_ret.name)

\* The files of the volume: the inodes in use other than the root directory.
Files == { k \in Ino : k # ROOT_INO /\ inode_bitmap[k] = 1 }

\* What a writeat of buf at pos owes: every byte accepted, the same bytes read
\* back at pos, and nothing else changed in this file or in any other.
WriteReadRoundTrip ==
    LET h == WrittenHandle
        back == ktfs_readat(ktfs_disk, h, ktfs_ret.pos, Len(ktfs_ret.buf))
    IN  /\ ktfs_ret.err = "none"
        /\ ktfs_ret.val = Len(ktfs_ret.buf)
        /\ back.err = "none"
        /\ back.data = ktfs_ret.buf
        /\ \A k \in Files : FileContents(ktfs_disk, k) = ktfs_shadow[k]

\* C5: on a file that SETEND has set to size S, a writeat(pos, data) with
\* pos < S and pos + len <= S is accepted in full, a readat(pos, len) after it
\* returns exactly data, and the other bytes of the file and the bytes of every
\* other file are what they were before the write.
C5_WriteThenRead ==
    (/\ ktfs_ret.op = "writeat"
     /\ ktfs_ext[WrittenHandle.inode] \in {"yes", "failed"}
     /\ ktfs_ret.pos < WrittenHandle.file_size
     /\ ktfs_ret.pos + Len(ktfs_ret.buf) <= WrittenHandle.file_size)
    => WriteReadRoundTrip

\* The data-block bitmap, the inode bitmap and the size of the root directory
\* are what they were before the create of the sequence.
Restored ==
    /\ ktfs_disk.bitmap = ktfs_seq.bitmap
    /\ inode_bitmap = ktfs_seq.ibm
    /\ ktfs_disk.inode[ROOT_INO].size = ktfs_seq.rootsize

\* C6: fscreate(name), SETEND to a length within the inode's range and
\* fsdelete(name) restore the data-block bitmap, the in-memory inode bitmap and
\* the root directory size; and after k deletes, k creates of new names are
\* not refused for want of blocks or inodes.
C6_DeleteRestores ==
    /\ ktfs_seq.stage = "deleted" => Restored
    /\ ~ (ktfs_seq.stage = "refused" /\ ktfs_seq.room > 0)

\* No entry of the root directory has the name nm.
InNoEntry(nm) ==
    \A k \in 0 .. (ktfs_disk.inode[ROOT_INO].size - 1) :
        DentName(Dentry(ktfs_disk, k)) # nm

\* The last call was made on the file that the last fscreate created, and no
\* call on another file or that changes this one came in between.
OnCreated ==
    /\ ktfs_seq.stage = "created"
    /\ ktfs_seq.name = ktfs_ret.name

\* C18: an fsopen of the name that fscreate has just created succeeds and
\* IOCTL_GETEND on its handle reports 0; an fsopen of a name that no entry of
\* the root directory has, an empty root directory included, returns -ENOENT
\* and leaves the caller's handle pointer as it was.
C18_CreateThenOpen ==
    /\ (ktfs_ret.op = "open" /\ OnCreated)
          => /\ ktfs_ret.err = "none"
             /\ ktfs_ret.ioptr = IoOf(ktfs_ret.name)
             /\ IsOpen(ktfs_ret.name)
             /\ seekio_cntl_getend(Handle(ktfs_ret.name)) = 0
    /\ (ktfs_ret.op = "getend" /\ OnCreated) => ktfs_ret.val = 0
    /\ (ktfs_ret.op = "open" /\ InNoEntry(ktfs_ret.name))
          => /\ ktfs_ret.err = "ENOENT"
             /\ ktfs_ret.ioptr = ktfs_ret.before
             /\ ~ IsOpen(ktfs_ret.name)

\* C18 witness: IOCTL_GETEND has reported 0 on the handle of a file that was
\* created as the second or a later entry of the root directory and then
\* opened with a caller's pointer that held an older handle.
C18_Witness ==
    /\ ktfs_ret.op = "getend"
    /\ OnCreated
    /\ ktfs_ret.val = 0
    /\ IsOpen(ktfs_ret.name)
    /\ DirFind(ktfs_disk, ktfs_ret.name) >= 1

\* What fsopen(nm) finds on volume disk: the error, and the inode number, the
\* size and the bytes of the file.
Found(disk, nm) ==
    LET r == ktfs_open(disk, << >>, nm, "NULL")
    IN  IF r.err # "none" THEN [err |-> r.err, inode |-> 0, size |-> 0, data |-> << >>]
        ELSE [err |-> "none", inode |-> r.files[1].inode,
              size |-> r.files[1].file_size,
              data |-> FileContents(disk, r.files[1].inode)]

\* The step is an fsdelete.
Deletes ==
    /\ ktfs_calls' = ktfs_calls + 1
    /\ ktfs_ret'.op = "delete"

\* C19: after an fsdelete(name) that succeeds, fsopen(name) returns -ENOENT,
\* the root directory is one entry (16 bytes in the source) shorter, and every
\* other file that fsopen found before is found with the same inode number,
\* size and contents; an fsdelete of a name that no entry has returns -ENOENT
\* and changes nothing.
C19_DeleteFrame ==
    [][Deletes =>
         LET nm == ktfs_ret'.name
         IN  /\ ktfs_ret'.err = "none" =>
                  /\ Found(ktfs_disk', nm).err = "ENOENT"
                  /\ ktfs_disk'.inode[ROOT_INO].size = ktfs_disk.inode[ROOT_INO].size - 1
                  /\ \A other \in Name \ {nm} :
                        Found(ktfs_disk, other).err = "none"
                        => Found(ktfs_disk', other) = Found(ktfs_disk, other)
             /\ InNoEntry(nm) =>
                  /\ ktfs_ret'.err = "ENOENT"
                  /\ UNCHANGED << ktfs_disk, inode_bitmap, open_files >>
             /\ ktfs_ret'.err = "none" => ~ InNoEntry(nm)]_vars

\* C19 witness: the file that was the first entry of a directory block of two
\* directory blocks has been deleted, the directory's last entry has moved
\* into its place, and two files with contents are left.
C19_Witness ==
    /\ ktfs_ret.op = "delete"
    /\ ktfs_ret.err = "none"
    /\ ktfs_disk.inode[ROOT_INO].size = KTFS_BLKSZ
    /\ Found(ktfs_disk, ktfs_ret.name).err = "ENOENT"
    /\ \E a \in Name, b \in Name :
          /\ a # b
          /\ DirFind(ktfs_disk, a) = 0
          /\ DentInode(Dentry(ktfs_disk, 0)) = KTFS_BLKSZ + 1
          /\ Found(ktfs_disk, a).size = KTFS_BLKSZ + 1
          /\ Found(ktfs_disk, b).err = "none"

\* The last call was a SETEND that returned 0, the first call to change the
\* file that the last fscreate created: no byte of the file was ever written.
ExtendedUnwritten ==
    /\ ktfs_ret.op = "setend"
    /\ ktfs_ret.err = "none"
    /\ ktfs_seq.stage = "extended"
    /\ ktfs_seq.name = ktfs_ret.name
    /\ IsOpen(ktfs_ret.name)

\* C20: the bytes of a region that SETEND added to a file and that were never
\* written read back as zero, also when the region's data blocks belonged to
\* a file that has been deleted.
C20_ExtendedReadsZero ==
    ExtendedUnwritten =>
        LET h == Handle(ktfs_ret.name)
            back == ktfs_readat(ktfs_disk, h, 0, h.file_size)
        IN  h.file_size > 0 =>
              /\ back.err = "none"
              /\ Len(back.data) = h.file_size
              /\ \A k \in 1 .. Len(back.data) : back.data[k] = 0

\* ======================================================================
\* PIPES                                                         (sys/io.c)
\* ======================================================================

\* Size of the ring (one page), threads using the pipe, calls made in a run,
\* the longest buffer passed to a call, the most references to an endpoint.
PAGE_SIZE == 2
NPipeThr == 2
MaxPipeCalls == 5
MaxPipeLen == 3
MaxRef == 2

PThr == 1 .. NPipeThr
PipeBufs == UNION { [1 .. n -> Byte] : n \in 0 .. MaxPipeLen }
Pages == [0 .. (PAGE_SIZE - 1) -> Byte]
Endpoint == {"wio", "rio"}

NoPipeLoc == [len |-> 0, req |-> 0, n |-> 0, buf |-> << >>]
NoPipeRet == [op |-> "none", thr |-> 0, len |-> 0, err |-> "none", val |-> 0,
              data |-> << >>, owed |-> << >>, wclosed |-> FALSE]

PipeInit ==
    /\ pipe_st = "none"
    /\ pipe_buf = [i \in 0 .. (PAGE_SIZE - 1) |-> 0]
    /\ hpos = 0
    /\ tpos = 0
    /\ pipe_ref = [wio |-> 0, rio |-> 0]
    /\ pp_pc = [t \in PThr |-> "idle"]
    /\ pp_loc = [t \in PThr |-> NoPipeLoc]
    /\ pipe_ret = NoPipeRet
    /\ pipe_written = << >>
    /\ pipe_delivered = << >>
    /\ pipe_calls = 0

pipe_rbuf_empty(hp, tp) == hp = tp

\* (uint16_t)(tpos - hpos) == PAGE_SIZE
pipe_rbuf_full(hp, tp) == ((tp - hp) % 65536) = PAGE_SIZE

\* pipe_rbuf_putc: the ring and tpos after c is put.
pipe_rbuf_putc(ring, tp, c) ==
    [buf |-> [ring EXCEPT ![tp % PAGE_SIZE] = c], tpos |-> tp + 1]

\* pipe_rbuf_getc: the byte at hpos, and hpos after it is taken.
pipe_rbuf_getc(ring, hp) == [c |-> ring[hp % PAGE_SIZE], hpos |-> hp + 1]

\* condition_broadcast(&pipe->buf_empty) / (&pipe->buf_full): every thread
\* waiting on the condition becomes ready to go on.
WakeReaders(pc) == [t \in PThr |-> IF pc[t] = "rd_wait" THEN "rd_woken" ELSE pc[t]]
WakeWriters(pc) == [t \in PThr |-> IF pc[t] = "wr_wait" THEN "wr_woken" ELSE pc[t]]

PipeCall == /\ pipe_calls < MaxPipeCalls
            /\ pipe_calls' = pipe_calls + 1

\* The unread bytes of the ring, oldest first.
Unread ==
    IF tpos >= hpos
    THEN [i \in 1 .. (tpos - hpos) |-> pipe_buf[(hpos + i - 1) % PAGE_SIZE]]
    ELSE << >>

\* The first n elements of a sequence (all of it if it is shorter).
Take(q, n) == SubSeq(q, 1, IF n < Len(q) THEN n ELSE Len(q))

\* A call returns: what it returned, and for a read what the ring held for it.
Returned(op, t, len, err, val, data) ==
    [op |-> op, thr |-> t, len |-> len, err |-> err, val |-> val, data |-> data,
     owed |-> Take(Unread, len),
     wclosed |-> (pipe_ref.wio = 0 /\ pipe_ref.rio > 0)]

\* create_pipe: both endpoints with one reference, an empty ring on a page
\* that alloc_phys_page hands out as it is.
create_pipe(page) ==
    /\ pipe_st = "none"
    /\ PipeCall
    /\ pipe_st' = "open"
    /\ pipe_buf' = page
    /\ hpos' = 0
    /\ tpos' = 0
    /\ pipe_ref' = [wio |-> 1, rio |-> 1]
    /\ pipe_ret' = [NoPipeRet EXCEPT !.op = "create"]
    /\ UNCHANGED << pp_pc, pp_loc, pipe_written, pipe_delivered >>

\* ioaddref on an endpoint somebody holds.
ioaddref(e) ==
    /\ pipe_st = "open"
    /\ pipe_ref[e] > 0
    /\ pipe_ref[e] < MaxRef
    /\ PipeCall
    /\ pipe_ref' = [pipe_ref EXCEPT ![e] = @ + 1]
    /\ pipe_ret' = [NoPipeRet EXCEPT !.op = "addref"]
    /\ UNCHANGED << pipe_st, pipe_buf, hpos, tpos, pp_pc, pp_loc, pipe_written,
                    pipe_delivered >>

\* ioclose on an endpoint: the last reference runs pipe_close_wio /
\* pipe_close_rio, which broadcasts both conditions and frees the pipe when
\* the other endpoint is closed too.  The pipe is not freed under a thread
\* that is inside a call.
ioclose(e) ==
    /\ pipe_st = "open"
    /\ pipe_ref[e] > 0
    /\ PipeCall
    /\ \E ref \in { [pipe_ref EXCEPT ![e] = @ - 1] } :
         /\ pipe_ref' = ref
         /\ IF ref[e] = 0
            THEN /\ pp_pc' = WakeReaders(WakeWriters(pp_pc))
                 /\ IF ref.wio = 0 /\ ref.rio = 0
                    THEN /\ \A t \in PThr : pp_pc[t] = "idle"
                         /\ pipe_st' = "freed"
                    ELSE pipe_st' = pipe_st
            ELSE UNCHANGED << pp_pc, pipe_st >>
    /\ pipe_ret' = [NoPipeRet EXCEPT !.op = "close"]
    /\ UNCHANGED << pipe_buf, hpos, tpos, pp_loc, pipe_written, pipe_delivered >>

\* A call of thread t returns.
PipeReturn(t, pc, ret) ==
    /\ pp_pc' = [pc EXCEPT ![t] = "idle"]
    /\ pp_loc' = [pp_loc EXCEPT ![t] = NoPipeLoc]
    /\ pipe_ret' = ret

\* The loop of pipe_write from byte n on, up to the point where the ring is
\* full or all len bytes are put.
RECURSIVE PutLoop(_, _, _, _, _)
PutLoop(ring, tp, n, buf, len) ==
    IF n >= len \/ pipe_rbuf_full(hpos, tp)
    THEN [buf |-> ring, tpos |-> tp, n |-> n]
    ELSE LET q == pipe_rbuf_putc(ring, tp, buf[n + 1])
         IN  PutLoop(q.buf, q.tpos, n + 1, buf, len)

\* pipe_write with n of len bytes put: wait while the ring is full, give up
\* if an endpoint is closed, put bytes; after the last byte broadcast
\* buf_empty and return len.
WriteGo(t, n, buf, len) ==
    IF pipe_rbuf_full(hpos, tpos)
    THEN /\ pp_pc' = [pp_pc EXCEPT ![t] = "wr_wait"]
         /\ pp_loc' = [pp_loc EXCEPT ![t] = [len |-> len, req |-> Len(buf),
                                             n |-> n, buf |-> buf]]
         /\ UNCHANGED << pipe_buf, tpos, pipe_written, pipe_ret >>
    ELSE IF pipe_ref.wio = 0 \/ pipe_ref.rio = 0
    THEN /\ PipeReturn(t, pp_pc, Returned("write", t, Len(buf), "EPIPE", 0, << >>))
         /\ UNCHANGED << pipe_buf, tpos, pipe_written >>
    ELSE \E r \in { PutLoop(pipe_buf, tpos, n, buf, len) } :
           /\ pipe_buf' = r.buf
           /\ tpos' = r.tpos
           /\ pipe_written' = pipe_written \o SubSeq(buf, n + 1, r.n)
           /\ IF r.n = len
              THEN PipeReturn(t, WakeReaders(pp_pc),
                              Returned("write", t, Len(buf), "none", len, << >>))
              ELSE /\ pp_pc' = [pp_pc EXCEPT ![t] = "wr_wait"]
                   /\ pp_loc' = [pp_loc EXCEPT ![t] = [len |-> len, req |-> Len(buf),
                                                       n |-> r.n, buf |-> buf]]
                   /\ UNCHANGED pipe_ret

\* pipe_write(wio, buf, len) by thread t.
pipe_write(t, buf) ==
    /\ pipe_st = "open"
    /\ pp_pc[t] = "idle"
    /\ PipeCall
    /\ IF pipe_ref.wio = 0 \/ pipe_ref.rio = 0
       THEN /\ PipeReturn(t, pp_pc, Returned("write", t, Len(buf), "EPIPE", 0, << >>))
            /\ UNCHANGED << pipe_buf, tpos, pipe_written >>
       ELSE IF Len(buf) <= 0
       THEN /\ PipeReturn(t, pp_pc, Returned("write", t, 0, "none", 0, << >>))
            /\ UNCHANGED << pipe_buf, tpos, pipe_written >>
       ELSE WriteGo(t, 0, buf, IF Len(buf) > PAGE_SIZE THEN PAGE_SIZE ELSE Len(buf))
    /\ UNCHANGED << pipe_st, hpos, pipe_ref, pipe_delivered >>

\* pipe_write goes on after condition_wait(&buf_full).
pipe_write_resume(t) ==
    /\ pipe_st = "open"
    /\ pp_pc[t] = "wr_woken"
    /\ WriteGo(t, pp_loc[t].n, pp_loc[t].buf, pp_loc[t].len)
    /\ UNCHANGED << pipe_st, hpos, pipe_ref, pipe_delivered, pipe_calls >>

\* The do-while loop of pipe_read: take a byte, stop when the ring is empty
\* or len bytes are taken.
RECURSIVE GetLoop(_, _, _)
GetLoop(hp, acc, len) ==
    LET g == pipe_rbuf_getc(pipe_buf, hp)
        got == Append(acc, g.c)
    IN  IF pipe_rbuf_empty(g.hpos, tpos) \/ Len(got) >= len
        THEN [hpos |-> g.hpos, data |-> got]
        ELSE GetLoop(g.hpos, got, len)

\* pipe_read behind its wait: the loop, broadcast of buf_full, return.
ReadGo(t, req, len) ==
    \E r \in { GetLoop(hpos, << >>, len) } :
      /\ hpos' = r.hpos
      /\ pipe_delivered' = pipe_delivered \o r.data
      /\ PipeReturn(t, WakeWriters(pp_pc),
                    Returned("read", t, req, "none", Len(r.data), r.data))

\* pipe_read(rio, buf, len) by thread t.
pipe_read(t, len) ==
    /\ pipe_st = "open"
    /\ pp_pc[t] = "idle"
    /\ PipeCall
    /\ IF pipe_ref.rio = 0
       THEN /\ PipeReturn(t, pp_pc, Returned("read", t, len, "EPIPE", 0, << >>))
            /\ UNCHANGED << hpos, pipe_delivered >>
       ELSE IF pipe_ref.wio = 0
       THEN /\ PipeReturn(t, pp_pc, Returned("read", t, len, "none", 0, << >>))
            /\ UNCHANGED << hpos, pipe_delivered >>
       ELSE IF pipe_rbuf_empty(hpos, tpos)
       THEN /\ pp_pc' = [pp_pc EXCEPT ![t] = "rd_wait"]
            /\ pp_loc' = [pp_loc EXCEPT ![t] =
                            [NoPipeLoc EXCEPT !.req = len,
                                              !.len = IF len > PAGE_SIZE
                                                      THEN PAGE_SIZE ELSE len]]
            /\ UNCHANGED << hpos, pipe_delivered, pipe_ret >>
       ELSE ReadGo(t, len, IF len > PAGE_SIZE THEN PAGE_SIZE ELSE len)
    /\ UNCHANGED << pipe_st, pipe_buf, tpos, pipe_ref, pipe_written >>

\* pipe_read goes on after condition_wait(&buf_empty).
pipe_read_resume(t) ==
    /\ pipe_st = "open"
    /\ pp_pc[t] = "rd_woken"
    /\ IF pipe_ref.rio = 0
       THEN /\ PipeReturn(t, pp_pc,
                          Returned("read", t, pp_loc[t].req, "EPIPE", 0, << >>))
            /\ UNCHANGED << hpos, pipe_delivered >>
       ELSE ReadGo(t, pp_loc[t].req, pp_loc[t].len)
    /\ UNCHANGED << pipe_st, pipe_buf, tpos, pipe_ref, pipe_written, pipe_calls >>

PipeNext ==
    \/ (\E page \in Pages : create_pipe(page)) /\ PipeFrame
    \/ (\E e \in Endpoint : ioaddref(e)) /\ PipeFrame
    \/ (\E e \in Endpoint : ioclose(e)) /\ PipeFrame
    \/ (\E t \in PThr, buf \in PipeBufs : pipe_write(t, buf)) /\ PipeFrame
    \/ (\E t \in PThr : pipe_write_resume(t)) /\ PipeFrame
    \/ (\E t \in PThr, len \in 0 .. MaxPipeLen : pipe_read(t, len)) /\ PipeFrame
    \/ (\E t \in PThr : pipe_read_resume(t)) /\ PipeFrame

\* ---- properties of pipes ----

IsPrefix(p, q) == Len(p) <= Len(q) /\ SubSeq(q, 1, Len(p)) = p

\* C7: while both endpoints are open, the bytes returned by the reads so far
\* are, in order, a prefix of the bytes put by the writes, and a read returns
\* at most the len bytes it asked for.
C7_ReadsArePrefixOfWrites ==
    (pipe_st = "open" /\ pipe_ref.wio > 0 /\ pipe_ref.rio > 0)
    => /\ IsPrefix(pipe_delivered, pipe_written)
       /\ (pipe_ret.op = "read" /\ pipe_ret.err = "none")
          => pipe_ret.val <= pipe_ret.len

\* C8: a read that returns while the write endpoint is closed returns the
\* oldest unread bytes, as many as it asked for and as are left, and so 0
\* only when none is left; a reader woken by the close from an empty pipe is
\* such a read with nothing left.
C8_ReadAfterWriterClose ==
    (pipe_ret.op = "read" /\ pipe_ret.wclosed)
    => /\ pipe_ret.err = "none"
       /\ pipe_ret.data = pipe_ret.owed
       /\ pipe_ret.val = Len(pipe_ret.owed)

\* C38: in every state of a pipe 0 <= tpos - hpos <= PAGE_SIZE: no read takes
\* a byte that was not written and no write overwrites a byte that was not
\* read.
C38_RingWithinBounds ==
    pipe_st = "open" => (0 <= tpos - hpos /\ tpos - hpos <= PAGE_SIZE)

\* ======================================================================
\* PHYSICAL PAGES AND ADDRESS SPACES (sys/memory.c)
\* ======================================================================

PTE_CNT == 2        \* entries of a page table, words of a page
NumPages == 12      \* page frames of RAM
MaxAllocCnt == 3    \* largest cnt passed to alloc_phys_pages
MaxMemCalls == 6    \* memory calls in one run

PTE_V == 1
PTE_R == 2
PTE_W == 4
PTE_X == 8
PTE_U == 16
PTE_G == 32
PTE_A == 64
PTE_D == 128

Page == 0 .. (NumPages - 1)
ZeroPage == [i \in 0 .. (PTE_CNT - 1) |-> 0]

\* What a page that is not mapped reads as: nothing.
Unmapped == << >>

\* Page 0 holds main_pt2; the pages behind it are one free chunk.
MainRoot == 0
InitChunks == << [pp |-> MainRoot + 1, pagecnt |-> NumPages - 1] >>

NoMemRet == [op |-> "none", pp |-> NULL, cnt |-> 0, before |-> 0,
             paired |-> FALSE, vpn |-> NULL,
             val |-> "none", addr |-> 0, len |-> 0, flags |-> 0,
             freed |-> << >>]

\* Bitwise or of two flag bytes.
RECURSIVE BitOr(_, _)
BitOr(a, b) ==
    IF a = 0 THEN b
    ELSE IF b = 0 THEN a
    ELSE (IF a % 2 = 1 \/ b % 2 = 1 THEN 1 ELSE 0) + 2 * BitOr(a \div 2, b \div 2)

\* struct pte as a word: flags in bits 0-7, rsw in bits 8-9, ppn from bit 10.
PteFlags(w) == w % 256
PtePpn(w) == w \div 1024
MkPte(flags, ppn) == ppn * 1024 + flags
HasFlag(w, f) == (PteFlags(w) \div f) % 2 = 1

PTE_VALID(w) == HasFlag(w, PTE_V)
PTE_GLOBAL(w) == HasFlag(w, PTE_G)

leaf_pte(pp, rwxug_flags) == MkPte(BitOr(rwxug_flags, PTE_A + PTE_D + PTE_V), pp)
ptab_pte(pt, g_flag) == MkPte(BitOr(g_flag, PTE_V), pt)
null_pte == MkPte(0, 0)

\* Virtual page numbers have three fields of PTE_CNT values each.
VPN2(vpn) == (vpn \div (PTE_CNT * PTE_CNT)) % PTE_CNT
VPN1(vpn) == (vpn \div PTE_CNT) % PTE_CNT
VPN0(vpn) == vpn % PTE_CNT

\* The user range is the last entry of a root table.
UMEM_START_VPN == (PTE_CNT - 1) * PTE_CNT * PTE_CNT
UMEM_END_VPN == PTE_CNT * PTE_CNT * PTE_CNT
UserVpn == UMEM_START_VPN .. (UMEM_END_VPN - 1)

\* The flags user pages are mapped with.
UserFlags == { PTE_R + PTE_W + PTE_U, PTE_R + PTE_U }

main_pt2 ==
    [i \in 0 .. (PTE_CNT - 1) |->
        IF i < PTE_CNT - 1
        THEN leaf_pte(i * PTE_CNT * PTE_CNT, PTE_R + PTE_W + PTE_G)
        ELSE null_pte]

\* memory_init: main_pt2 maps the low ranges one to one as global gigapages
\* (its last entry, the user range, is empty), the main space is active, the
\* free pages are one chunk.
MemInit ==
    /\ phys_mem = [p \in Page |-> IF p = MainRoot THEN main_pt2 ELSE ZeroPage]
    /\ free_chunk_list = InitChunks
    /\ satp = MainRoot
    /\ mem_clone = NULL
    /\ mem_view = [r \in {MainRoot} |-> [v \in UserVpn |-> Unmapped]]
    /\ mem_out = {}
    /\ mem_ret = NoMemRet
    /\ mem_st = "run"
    /\ mem_calls = 0

\* The search loop of alloc_phys_pages: i is current, best the best chunk so
\* far (0 for the dummy of UINT64_MAX pages); the result is the best chunk.
RECURSIVE BestFit(_, _, _, _)
BestFit(list, i, best, cnt) ==
    IF i > Len(list)
    THEN best
    ELSE IF /\ list[i].pagecnt >= cnt
            /\ (best = 0 \/ list[i].pagecnt <= list[best].pagecnt)
         THEN IF list[i].pagecnt = cnt
              THEN i
              ELSE BestFit(list, i + 1, i, cnt)
         ELSE BestFit(list, i + 1, best, cnt)

\* alloc_phys_pages(cnt): the smallest chunk that fits is unlinked when it has
\* exactly cnt pages, otherwise its upper cnt pages are split off. ok is
\* FALSE where the code panics.
alloc_phys_pages(list, cnt) ==
    IF list = << >>
    THEN [ok |-> FALSE, pp |-> NULL, list |-> list]
    ELSE LET b == BestFit(list, 1, 0, cnt)
         IN  IF b = 0
             THEN [ok |-> FALSE, pp |-> NULL, list |-> list]
             ELSE LET pages_left == list[b].pagecnt - cnt
                  IN  IF pages_left = 0
                      THEN [ok |-> TRUE, pp |-> list[b].pp,
                            list |-> SubSeq(list, 1, b - 1)
                                     \o SubSeq(list, b + 1, Len(list))]
                      ELSE [ok |-> TRUE, pp |-> list[b].pp + pages_left,
                            list |-> [list EXCEPT ![b].pagecnt = pages_left]]

\* An insert position that is always the head of the list.
InsertPos_head(list, pp, i) == i

\* The insert position free_phys_pages looks for: the first chunk that is not
\* below the new one.
RECURSIVE InsertPos(_, _, _)
InsertPos(list, pp, i) ==
    IF i <= Len(list) /\ list[i].pp < pp
    THEN InsertPos(list, pp, i + 1)
    ELSE i

\* free_phys_pages that forgets the pages of a chunk it merges into the
\* previous chunk.
free_phys_pages_dropmerged(list, pp, cnt) ==
    LET target == InsertPos(list, pp, 1)
        prev == target - 1
        with_prev == prev >= 1 /\ list[prev].pp + list[prev].pagecnt = pp
        new == IF with_prev THEN list[prev] ELSE [pp |-> pp, pagecnt |-> cnt]
        with_next == /\ target <= Len(list)
                     /\ new.pp + new.pagecnt = list[target].pp
    IN  SubSeq(list, 1, IF with_prev THEN prev - 1 ELSE prev)
        \o << IF with_next
              THEN [new EXCEPT !.pagecnt = @ + list[target].pagecnt]
              ELSE new >>
        \o SubSeq(list, IF with_next THEN target + 1 ELSE target, Len(list))

\* free_phys_pages(pp, cnt): the chunk is linked in by address and merged
\* with the previous and with the next chunk where it borders them.
free_phys_pages(list, pp, cnt) ==
    LET target == InsertPos(list, pp, 1)
        prev == target - 1
        with_prev == prev >= 1 /\ list[prev].pp + list[prev].pagecnt = pp
        new == IF with_prev
               THEN [pp |-> list[prev].pp, pagecnt |-> list[prev].pagecnt + cnt]
               ELSE [pp |-> pp, pagecnt |-> cnt]
        with_next == /\ target <= Len(list)
                     /\ new.pp + new.pagecnt = list[target].pp
    IN  SubSeq(list, 1, IF with_prev THEN prev - 1 ELSE prev)
        \o << IF with_next
              THEN [new EXCEPT !.pagecnt = @ + list[target].pagecnt]
              ELSE new >>
        \o SubSeq(list, IF with_next THEN target + 1 ELSE target, Len(list))

\* free_phys_page_count(): the pages of all chunks.
RECURSIVE free_phys_page_count(_)
free_phys_page_count(list) ==
    IF list = << >>
    THEN 0
    ELSE Head(list).pagecnt + free_phys_page_count(Tail(list))

MemCall ==
    /\ mem_st = "run"
    /\ mem_calls < MaxMemCalls
    /\ mem_calls' = mem_calls + 1

\* panic(): the kernel halts.
MemPanic(op) ==
    /\ mem_st' = "panic"
    /\ mem_ret' = [NoMemRet EXCEPT !.op = op]
    /\ UNCHANGED << phys_mem, free_chunk_list, satp, mem_clone, mem_view, mem_out >>

\* A caller takes cnt pages.
PagesAlloc(cnt) ==
    /\ MemCall
    /\ \E r \in { alloc_phys_pages(free_chunk_list, cnt) } :
         IF ~ r.ok
         THEN MemPanic("alloc")
         ELSE /\ free_chunk_list' = r.list
              /\ mem_out' = mem_out \cup { [pp |-> r.pp, cnt |-> cnt] }
              /\ mem_ret' = [NoMemRet EXCEPT
                               !.op = "alloc", !.pp = r.pp, !.cnt = cnt,
                               !.before = free_phys_page_count(free_chunk_list)]
              /\ UNCHANGED << phys_mem, satp, mem_clone, mem_view, mem_st >>

\* A caller gives back an allocation it holds.
PagesFree(a) ==
    /\ MemCall
    /\ a \in mem_out
    /\ free_chunk_list' = free_phys_pages(free_chunk_list, a.pp, a.cnt)
    /\ mem_out' = mem_out \ {a}
    /\ LET paired == /\ mem_ret.op = "alloc"
                     /\ mem_ret.pp = a.pp
                     /\ mem_ret.cnt = a.cnt
       IN  mem_ret' = [NoMemRet EXCEPT
                         !.op = "free", !.pp = a.pp, !.cnt = a.cnt,
                         !.paired = paired,
                         !.before = IF paired THEN mem_ret.before
                                    ELSE free_phys_page_count(free_chunk_list)]
    /\ UNCHANGED << phys_mem, satp, mem_clone, mem_view, mem_st >>

PagesNext ==
    \/ (\E cnt \in 1 .. MaxAllocCnt : PagesAlloc(cnt)) /\ MemFrame
    \/ (\E a \in mem_out : PagesFree(a)) /\ MemFrame

\* ---- properties of the page allocator ----

\* C10: alloc_phys_pages(n) followed at once by free_phys_pages of the
\* returned pointer and n leaves free_phys_page_count() as it was before the
\* allocation, and whenever every allocation handed out has been freed, in
\* whatever order, free_phys_page_count() has its initial value.
C10_AllocFreeKeepsCount ==
    /\ (mem_ret.op = "free" /\ mem_ret.paired)
       => free_phys_page_count(free_chunk_list) = mem_ret.before
    /\ (mem_out = {})
       => free_phys_page_count(free_chunk_list) = free_phys_page_count(InitChunks)

\* Three allocations were made and freed, the last free not being the one of
\* the latest allocation.
C10_Witness ==
    /\ mem_ret.op = "free"
    /\ ~ mem_ret.paired
    /\ mem_out = {}
    /\ mem_calls >= 6

\* C11: the free chunk list is sorted by strictly ascending address, every
\* chunk has at least one page, and no chunk ends where its successor starts.
C11_FreeListWellFormed ==
    \A i \in 1 .. Len(free_chunk_list) :
        /\ free_chunk_list[i].pagecnt >= 1
        /\ i < Len(free_chunk_list)
           => /\ free_chunk_list[i].pp < free_chunk_list[i + 1].pp
              /\ free_chunk_list[i].pp + free_chunk_list[i].pagecnt
                    # free_chunk_list[i + 1].pp

\* A free whose pages had a free chunk on both sides: they now lie inside one
\* chunk.
C11_Witness ==
    /\ mem_ret.op = "free"
    /\ \E i \in 1 .. Len(free_chunk_list) :
         /\ free_chunk_list[i].pp < mem_ret.pp
         /\ mem_ret.pp + mem_ret.cnt
              < free_chunk_list[i].pp + free_chunk_list[i].pagecnt

\* ---- address spaces ----

\* The memory a call works on: RAM, the free chunk list, ok (FALSE after a
\* panic) and the page the last allocation returned.
MemState(mem, list) == [mem |-> mem, list |-> list, ok |-> TRUE, pp |-> NULL]

\* pp = alloc_phys_pages(1); memset(pp, 0, PAGE_SIZE).
AllocZeroed(st) ==
    LET r == alloc_phys_pages(st.list, 1)
    IN  IF ~ st.ok \/ ~ r.ok
        THEN [st EXCEPT !.ok = FALSE]
        ELSE [mem |-> [st.mem EXCEPT ![r.pp] = ZeroPage], list |-> r.list,
              ok |-> TRUE, pp |-> r.pp]

\* One level of walk_and_alloc_pte: entry idx of table pt is made to refer to
\* a new zeroed table if it is not valid.
WalkAllocLevel(st, pt, idx) ==
    IF ~ st.ok \/ PTE_VALID(st.mem[pt][idx])
    THEN st
    ELSE LET a == AllocZeroed(st)
         IN  IF ~ a.ok
             THEN a
             ELSE [a EXCEPT !.mem[pt][idx] = ptab_pte(a.pp, 0)]

\* walk_and_alloc_pte(mspace, vma): pt0 is the table that holds the entry.
walk_and_alloc_pte(st, root, vpn) ==
    LET s2 == WalkAllocLevel(st, root, VPN2(vpn))
    IN  IF ~ s2.ok
        THEN [st |-> s2, pt0 |-> NULL]
        ELSE LET pt1 == PtePpn(s2.mem[root][VPN2(vpn)])
                 s1 == WalkAllocLevel(s2, pt1, VPN1(vpn))
             IN  IF ~ s1.ok
                 THEN [st |-> s1, pt0 |-> NULL]
                 ELSE [st |-> s1, pt0 |-> PtePpn(s1.mem[pt1][VPN1(vpn)])]

\* walk_pte(mspace, vma) read through: the entry, or, where an upper entry is
\* not valid, what the returned pointer to the local `null` of the finished
\* call reads as.
walk_pte(mem, root, vpn, dangling) ==
    LET e2 == mem[root][VPN2(vpn)]
    IN  IF ~ PTE_VALID(e2)
        THEN dangling
        ELSE LET e1 == mem[PtePpn(e2)][VPN1(vpn)]
             IN  IF ~ PTE_VALID(e1)
                 THEN dangling
                 ELSE mem[PtePpn(e1)][VPN0(vpn)]

\* The user pages whose walk_pte ends in that pointer.
Dangling(mem, root) ==
    { v \in UserVpn :
        \/ ~ PTE_VALID(mem[root][VPN2(v)])
        \/ ~ PTE_VALID(mem[PtePpn(mem[root][VPN2(v)])][VPN1(v)]) }

\* What such a read yields: the null entry the local held, or what was
\* stored over it since.
DanglingPte == { null_pte, leaf_pte(MainRoot, PTE_R + PTE_W + PTE_U) }

\* map_page(vma, pp, rwxug_flags) in the space of root.
map_page(st, root, vpn, pp, rwxug_flags) ==
    LET w == walk_and_alloc_pte(st, root, vpn)
    IN  IF ~ w.st.ok
        THEN w.st
        ELSE [w.st EXCEPT !.mem[w.pt0][VPN0(vpn)] = leaf_pte(pp, rwxug_flags)]

\* alloc_and_map_range(vma, PAGE_SIZE, rwxug_flags).
alloc_and_map_range(st, root, vpn, rwxug_flags) ==
    LET a == AllocZeroed(st)
    IN  IF ~ a.ok
        THEN a
        ELSE map_page(a, root, vpn, a.pp, rwxug_flags)

\* The entry the MMU finds for a user page in the space of root (null_pte
\* where the walk meets an entry that is not valid).
UserPte(mem, root, vpn) == walk_pte(mem, root, vpn, null_pte)

\* What a load through the space of root reads on a user page.
UserRead(mem, root, vpn) ==
    LET e == UserPte(mem, root, vpn)
    IN  IF PTE_VALID(e) /\ ~ PTE_GLOBAL(e) THEN mem[PtePpn(e)] ELSE Unmapped

\* clone_active_mspace, the root: a new zeroed table that takes over the
\* valid global entries of the original root og.
CloneRoot(st, og) ==
    LET a == AllocZeroed(st)
    IN  IF ~ a.ok
        THEN a
        ELSE [a EXCEPT !.mem[a.pp] =
                [i \in 0 .. (PTE_CNT - 1) |->
                    IF PTE_VALID(st.mem[og][i]) /\ PTE_GLOBAL(st.mem[og][i])
                    THEN st.mem[og][i]
                    ELSE null_pte]]

\* A clone that maps the page of the original instead of a copy of it.
CloneLeaf_shared(st, cl, vpn, og_pte) ==
    LET w == walk_and_alloc_pte(st, cl, vpn)
    IN  IF ~ w.st.ok
        THEN w.st
        ELSE [w.st EXCEPT !.mem[w.pt0][VPN0(vpn)] =
                            leaf_pte(PtePpn(og_pte), PteFlags(og_pte))]

\* clone_active_mspace, one user page: a new page gets the contents of the
\* original page and is mapped in the clone cl with the original's flags.
CloneLeaf(st, cl, vpn, og_pte) ==
    LET a == AllocZeroed(st)
    IN  IF ~ a.ok
        THEN a
        ELSE LET c == [a EXCEPT !.mem[a.pp] = a.mem[PtePpn(og_pte)]]
                 w == walk_and_alloc_pte(c, cl, vpn)
             IN  IF ~ w.st.ok
                 THEN w.st
                 ELSE [w.st EXCEPT !.mem[w.pt0][VPN0(vpn)] =
                                     leaf_pte(a.pp, PteFlags(og_pte))]

\* clone_active_mspace, the loop over the user range from vpn on.
RECURSIVE CloneLoop(_, _, _, _, _)
CloneLoop(st, og, cl, vpn, dangling) ==
    IF vpn >= UMEM_END_VPN \/ ~ st.ok
    THEN st
    ELSE LET og_pte == walk_pte(st.mem, og, vpn, dangling[vpn])
         IN  CloneLoop(IF PTE_VALID(og_pte) /\ ~ PTE_GLOBAL(og_pte)
                       THEN CloneLeaf(st, cl, vpn, og_pte)
                       ELSE st,
                       og, cl, vpn + 1, dangling)

\* The views of the spaces, the one of root replaced.
ViewWith(root, view) ==
    [r \in DOMAIN mem_view \cup {root} |-> IF r = root THEN view ELSE mem_view[r]]

\* clone_active_mspace() (once in a run).
clone_active_mspace ==
    /\ MemCall
    /\ mem_clone = NULL
    /\ \E dangling \in [UserVpn -> DanglingPte] :
         /\ \A v \in UserVpn \ Dangling(phys_mem, satp) : dangling[v] = null_pte
         /\ \E root \in { CloneRoot(MemState(phys_mem, free_chunk_list), satp) } :
            \E r \in { CloneLoop(root, satp, root.pp, UMEM_START_VPN, dangling) } :
              IF ~ r.ok
              THEN MemPanic("clone")
              ELSE /\ phys_mem' = r.mem
                   /\ free_chunk_list' = r.list
                   /\ mem_clone' = root.pp
                   /\ mem_view' = ViewWith(root.pp,
                                    [v \in UserVpn |-> UserRead(r.mem, root.pp, v)])
                   /\ mem_ret' = [NoMemRet EXCEPT
                                    !.op = "clone", !.pp = satp,
                                    !.before = free_phys_page_count(free_chunk_list)]
                   /\ UNCHANGED << satp, mem_out, mem_st >>

\* switch_mspace(mtag) to another space. paired says that the call follows
\* the clone_active_mspace that made the space; before is then the number of
\* free pages before that clone.
switch_mspace(root) ==
    /\ MemCall
    /\ root \in DOMAIN mem_view
    /\ root # satp
    /\ satp' = root
    /\ LET paired == mem_ret.op = "clone" /\ root = mem_clone
       IN  mem_ret' = [NoMemRet EXCEPT
                         !.op = "switch", !.pp = satp, !.paired = paired,
                         !.before = IF paired THEN mem_ret.before ELSE 0]
    /\ UNCHANGED << phys_mem, free_chunk_list, mem_clone, mem_view, mem_out, mem_st >>

\* alloc_and_map_range(vma, PAGE_SIZE, flags) in the active space.
MspaceMap(vpn, rwxug_flags) ==
    /\ MemCall
    /\ \E r \in { alloc_and_map_range(MemState(phys_mem, free_chunk_list),
                                      satp, vpn, rwxug_flags) } :
         IF ~ r.ok
         THEN MemPanic("map")
         ELSE /\ phys_mem' = r.mem
              /\ free_chunk_list' = r.list
              /\ mem_view' = [mem_view EXCEPT ![satp][vpn] = ZeroPage]
              /\ mem_ret' = [NoMemRet EXCEPT
                               !.op = "map", !.vpn = vpn,
                               !.pp = PtePpn(UserPte(r.mem, satp, vpn))]
              /\ UNCHANGED << satp, mem_clone, mem_out, mem_st >>

\* A store of val to word off of a writable user page, through the active
\* space.
MspaceStore(vpn, off, val) ==
    /\ MemCall
    /\ \E e \in { UserPte(phys_mem, satp, vpn) } :
         /\ PTE_VALID(e)
         /\ ~ PTE_GLOBAL(e)
         /\ HasFlag(e, PTE_W)
         /\ phys_mem' = [phys_mem EXCEPT ![PtePpn(e)][off] = val]
         /\ mem_ret' = [NoMemRet EXCEPT !.op = "store", !.pp = PtePpn(e), !.vpn = vpn]
    /\ mem_view' = [mem_view EXCEPT ![satp][vpn][off] = val]
    /\ UNCHANGED << free_chunk_list, satp, mem_clone, mem_out, mem_st >>

StoreVal == {1, 2}
StoreOff == {PTE_CNT - 1}

\* The user pages the callers map: two that share a table and one in the
\* last table.
MapVpn == {UMEM_START_VPN, UMEM_START_VPN + 1, UMEM_END_VPN - 1}

MspaceNext ==
    \/ (\E v \in MapVpn, f \in UserFlags : MspaceMap(v, f)) /\ MemFrame
    \/ (\E v \in MapVpn, off \in StoreOff, val \in StoreVal :
          MspaceStore(v, off, val)) /\ MemFrame
    \/ clone_active_mspace /\ MemFrame
    \/ (\E root \in Page : switch_mspace(root)) /\ MemFrame

\* ---- reset_active_mspace / unmap_and_free_range ----

\* What free_phys_pages(pp, cnt) stores at the start of the chunk it is given:
\* new->next (the address of target, 0 for NULL) and new->pagecnt.
page_chunk(mem, list, pp, cnt) ==
    LET target == InsertPos(list, pp, 1)
    IN  [mem[pp] EXCEPT
           ![0] = IF target <= Len(list) THEN list[target].pp * PTE_CNT ELSE 0,
           ![1] = cnt]

\* The table walk_pte ends in for a page that is not in Dangling.
Pt0Of(mem, root, vpn) ==
    PtePpn(mem[PtePpn(mem[root][VPN2(vpn)])][VPN1(vpn)])

\* The body of the loop of unmap_and_free_range for an entry that is valid and
\* not global: free_phys_pages(pageptr(pte->ppn), 1); *pte = null_pte(). The
\* store is lost where pte points to the local of the finished walk_pte.
UnmapStep(st, root, vpn, pte, lost) ==
    LET pp == PtePpn(pte)
        freed == [mem |-> [st.mem EXCEPT ![pp] = page_chunk(st.mem, st.list, pp, 1)],
                  list |-> free_phys_pages(st.list, pp, 1),
                  freed |-> Append(st.freed, pp)]
    IN  IF lost
        THEN freed
        ELSE [freed EXCEPT !.mem[Pt0Of(st.mem, root, vpn)][VPN0(vpn)] = null_pte]

\* unmap_and_free_range(vp, size) in the space of root, from vpn to the end of
\* the user range.
RECURSIVE unmap_and_free_range(_, _, _, _)
unmap_and_free_range(st, root, vpn, dangling) ==
    IF vpn >= UMEM_END_VPN
    THEN st
    ELSE LET pte == walk_pte(st.mem, root, vpn, dangling[vpn])
         IN  unmap_and_free_range(
                 IF PTE_VALID(pte) /\ ~ PTE_GLOBAL(pte)
                 THEN UnmapStep(st, root, vpn, pte, vpn \in Dangling(st.mem, root))
                 ELSE st,
                 root, vpn + 1, dangling)

\* reset_active_mspace(): unmap_and_free_range(UMEM_START, UMEM_END - UMEM_START).
reset_active_mspace ==
    /\ MemCall
    /\ \E dangling \in [UserVpn -> DanglingPte] :
         /\ \A v \in UserVpn \ Dangling(phys_mem, satp) : dangling[v] = null_pte
         /\ \E r \in { unmap_and_free_range(
                         [mem |-> phys_mem, list |-> free_chunk_list, freed |-> << >>],
                         satp, UMEM_START_VPN, dangling) } :
              /\ phys_mem' = r.mem
              /\ free_chunk_list' = r.list
              /\ mem_ret' = [NoMemRet EXCEPT !.op = "reset", !.pp = satp,
                                             !.freed = r.freed]
    /\ mem_view' = [mem_view EXCEPT ![satp] = [v \in UserVpn |-> Unmapped]]
    /\ UNCHANGED << satp, mem_clone, mem_out, mem_st >>

\* discard_active_mspace(): reset_active_mspace(); switch_mspace(main_mtag).
\* paired says that the call follows the switch to a space just cloned.
discard_active_mspace ==
    /\ MemCall
    /\ \E dangling \in [UserVpn -> DanglingPte] :
         /\ \A v \in UserVpn \ Dangling(phys_mem, satp) : dangling[v] = null_pte
         /\ \E r \in { unmap_and_free_range(
                         [mem |-> phys_mem, list |-> free_chunk_list, freed |-> << >>],
                         satp, UMEM_START_VPN, dangling) } :
              /\ phys_mem' = r.mem
              /\ free_chunk_list' = r.list
              /\ mem_ret' = [NoMemRet EXCEPT
                               !.op = "discard", !.pp = satp, !.freed = r.freed,
                               !.paired = mem_ret.op = "switch" /\ mem_ret.paired,
                               !.before = mem_ret.before]
    /\ mem_view' = [mem_view EXCEPT ![satp] = [v \in UserVpn |-> Unmapped]]
    /\ satp' = MainRoot
    /\ UNCHANGED << mem_clone, mem_out, mem_st >>

MaxResetCalls == 4   \* memory calls in a run that resets

ResetCall == mem_calls < MaxResetCalls /\ MemFrame

ResetNext ==
    \/ ResetCall /\ \E v \in MapVpn, f \in UserFlags : MspaceMap(v, f)
    \/ ResetCall /\ clone_active_mspace
    \/ ResetCall /\ \E root \in Page : switch_mspace(root)
    \/ ResetCall /\ reset_active_mspace

MaxDiscardCalls == 5   \* memory calls in a run that forks and exits

DiscardCall == mem_calls < MaxDiscardCalls /\ MemFrame

\* The pages the parent maps before it forks.
DiscardVpn == {UMEM_START_VPN, UMEM_END_VPN - 1}

DiscardNext ==
    \/ DiscardCall /\ \E v \in DiscardVpn : MspaceMap(v, PTE_R + PTE_W + PTE_U)
    \/ DiscardCall /\ clone_active_mspace
    \/ DiscardCall /\ \E root \in Page : switch_mspace(root)
    \/ DiscardCall /\ discard_active_mspace

\* ---- properties of address spaces ----

\* The clone cl is a deep copy of the space og.
DeepCopy(og, cl) ==
    /\ \A v \in UserVpn :
         LET e == UserPte(phys_mem, og, v)
             c == UserPte(phys_mem, cl, v)
         IN  (PTE_VALID(e) /\ ~ PTE_GLOBAL(e))
             => /\ PTE_VALID(c) /\ ~ PTE_GLOBAL(c)
                /\ PteFlags(c) = PteFlags(e)
                /\ PtePpn(c) # PtePpn(e)
                /\ phys_mem[PtePpn(c)] = phys_mem[PtePpn(e)]
    /\ \A i \in 0 .. (PTE_CNT - 1) :
         (PTE_VALID(phys_mem[og][i]) /\ PTE_GLOBAL(phys_mem[og][i]))
         => phys_mem[cl][i] = phys_mem[og][i]

\* In every space every user page reads as what was stored to it through that
\* space (for the clone: since it was made).
Isolated ==
    \A r \in DOMAIN mem_view, v \in UserVpn :
        UserRead(phys_mem, r, v) = mem_view[r][v]

\* C9: when clone_active_mspace returns, every valid non-global user page of
\* the original is mapped in the clone at the same address with the same
\* flags and contents on another physical page, and global entries are the
\* same; from then on no store through one space changes what the other reads.
C9_CloneIsDeepCopy ==
    (mem_clone # NULL)
    => /\ (mem_ret.op = "clone") => DeepCopy(mem_ret.pp, mem_clone)
       /\ Isolated

\* The clone was made of a space with a mapped page, and a store through the
\* clone made that page differ from the original's.
C9_Witness ==
    /\ mem_clone # NULL
    /\ satp = mem_clone
    /\ mem_ret.op = "store"
    /\ UserRead(phys_mem, MainRoot, mem_ret.vpn) # Unmapped
    /\ UserRead(phys_mem, MainRoot, mem_ret.vpn) # UserRead(phys_mem, mem_clone, mem_ret.vpn)

\* The pages that back the valid non-global user mappings of the space of root.
Backing(mem, root) ==
    { PtePpn(UserPte(mem, root, v)) :
        v \in { u \in UserVpn : /\ PTE_VALID(UserPte(mem, root, u))
                                /\ ~ PTE_GLOBAL(UserPte(mem, root, u)) } }

\* The number of times pp occurs in the sequence s.
Occurrences(s, pp) == Cardinality({ i \in 1 .. Len(s) : s[i] = pp })

\* The step is a call of reset_active_mspace.
Resets == mem_calls' # mem_calls /\ mem_ret'.op = "reset"

C40_CloneDiscardKeepsCount ==
    (mem_ret.op = "discard" /\ mem_ret.paired)
    => free_phys_page_count(free_chunk_list) = mem_ret.before

\* ---- validation of user pointers ----

\* Addresses count the words of memory: PTE_CNT of them make a page. 0 is the
\* null pointer.
ROUND_DOWN(addr) == addr - (addr % PTE_CNT)
VpnOf(addr) == addr \div PTE_CNT

\* Bitwise and of two flag bytes.
RECURSIVE BitAnd(_, _)
BitAnd(a, b) ==
    IF a = 0 \/ b = 0
    THEN 0
    ELSE (IF a % 2 = 1 /\ b % 2 = 1 THEN 1 ELSE 0) + 2 * BitAnd(a \div 2, b \div 2)

\* The loop of memory_validate_vptr_len from offset on: TRUE when it runs to
\* its end, FALSE when it returns -EACCESS.
RECURSIVE ValidateLoop(_, _, _, _, _, _, _)
ValidateLoop(mem, root, vma, offset, len, rwxug_flags, dangling) ==
    IF ~ (offset < len)
    THEN TRUE
    ELSE LET pte == walk_pte(mem, root, VpnOf(vma + offset),
                             dangling[VpnOf(vma + offset)])
         IN  IF \/ ~ PTE_VALID(pte)
                \/ BitAnd(PteFlags(pte), rwxug_flags) # rwxug_flags
             THEN FALSE
             ELSE ValidateLoop(mem, root, vma, offset + PTE_CNT, len,
                               rwxug_flags, dangling)

\* memory_validate_vptr_len(vp, len, rwxug_flags) in the space of root.
memory_validate_vptr_len(mem, root, vp, len, rwxug_flags, dangling) ==
    IF vp = 0
    THEN "EINVAL"
    ELSE IF ValidateLoop(mem, root, ROUND_DOWN(vp), 0, len, rwxug_flags, dangling)
         THEN "none"
         ELSE "EACCESS"

\* The pointers and lengths callers pass: null, the first and the last word
\* of the first user page, the first word of the last one; nothing, a word,
\* a page, more than a page.
UserAddr == { UMEM_START_VPN * PTE_CNT, (UMEM_START_VPN + 1) * PTE_CNT - 1,
              (UMEM_END_VPN - 1) * PTE_CNT }
ValidateLen == { 0, 1, PTE_CNT, PTE_CNT + 1 }
ValidateFlags == { PTE_R + PTE_U, PTE_W + PTE_U }

\* What the reads through pointers of finished walk_pte calls yield, one for
\* each of the pages among which such a read is made.
DanglingReads(mem, root, pages) ==
    { d \in [UserVpn -> DanglingPte] :
        \A v \in UserVpn \ (Dangling(mem, root) \cap pages) : d[v] = null_pte }

\* The pages the loop of memory_validate_vptr_len can look at.
ValidatedPages(vp, len) ==
    { v \in UserVpn : VpnOf(vp) <= v /\ (v - VpnOf(vp)) * PTE_CNT < len }

\* A caller validates a pointer.
MspaceValidate(vp, len, rwxug_flags) ==
    /\ MemCall
    /\ vp = 0 \/ vp + len <= UMEM_END_VPN * PTE_CNT
    /\ \E d \in DanglingReads(phys_mem, satp, ValidatedPages(vp, len)) :
         mem_ret' = [NoMemRet EXCEPT
                       !.op = "validate", !.addr = vp, !.len = len,
                       !.flags = rwxug_flags,
                       !.val = memory_validate_vptr_len(phys_mem, satp, vp, len,
                                                        rwxug_flags, d)]
    /\ UNCHANGED << phys_mem, free_chunk_list, satp, mem_clone, mem_view,
                    mem_out, mem_st >>

MaxValidateCalls == 4

ValidateNext ==
    \/ /\ mem_calls < MaxValidateCalls
       /\ \E v \in MapVpn, f \in UserFlags : MspaceMap(v, f)
       /\ MemFrame
    \/ /\ mem_calls < MaxValidateCalls
       /\ \E vp \in {0} \cup UserAddr, len \in ValidateLen, f \in ValidateFlags :
            MspaceValidate(vp, len, f)
       /\ MemFrame

\* ---- properties of the validation ----

\* The user pages that hold a word of [vp, vp + len).
PagesOfRange(vp, len) ==
    { v \in UserVpn :
        len > 0 /\ v * PTE_CNT < vp + len /\ vp < (v + 1) * PTE_CNT }

\* The page is mapped with all of the flags.
MappedWith(v, rwxug_flags) ==
    LET pte == UserPte(phys_mem, satp, v)
    IN  PTE_VALID(pte) /\ BitAnd(PteFlags(pte), rwxug_flags) = rwxug_flags

\* C13: memory_validate_vptr_len returns -EINVAL for the null pointer,
\* otherwise 0 when every page that holds a byte of [p, p + len) is mapped
\* with the requested flags (so always for len 0), and -EACCESS when one is
\* not.
C13_ValidateChecksEveryPage ==
    (mem_ret.op = "validate")
    => mem_ret.val =
         IF mem_ret.addr = 0 THEN "EINVAL"
         ELSE IF \A v \in PagesOfRange(mem_ret.addr, mem_ret.len) :
                    MappedWith(v, mem_ret.flags)
              THEN "none"
              ELSE "EACCESS"

\* ======================================================================
\* SYSTEM CALLS                                           (sys/syscall.c)
\* ======================================================================

\* Number of descriptors of a process.
PROCESS_IOMAX == 2

\* Number of system calls a process makes in a run, and of pages it has
\* mapped before it makes them.
MaxSysCalls == 2
MaxSysMaps == 1

Fd == 0 .. (PROCESS_IOMAX - 1)

\* The arguments processes pass: descriptors from -1 to one past the table,
\* the null pointer, the first and the last word of the first user page,
\* lengths up to a page.
SysFd == -1 .. PROCESS_IOMAX
SysPtr == { 0, UMEM_START_VPN * PTE_CNT, (UMEM_START_VPN + 1) * PTE_CNT - 1 }
SysLen == { 0, 1, PTE_CNT }
SysArgc == { 0, 1 }

\* An empty slot of iotab.  A slot in use holds the kind of its object.
NoIo == "NULL"

NoSysRet ==
    [op |-> "none", fd |-> -1, fd2 |-> -1, ptr |-> 0, ptr2 |-> 0, len |-> 0,
     val |-> "none", out |-> -1, deref |-> {}, oob |-> FALSE,
     before |-> << >>,
            addref |-> 0]

\* procmgr_init: the main process has the null device at descriptor 0.
SysInit ==
    /\ iotab = [fd \in Fd |-> IF fd = 0 THEN "null" ELSE NoIo]
    /\ sys_ret = NoSysRet
    /\ sys_st = "run"
    /\ sys_calls = 0

\* One access of the kernel to user memory: n words from addr, loaded
\* (PTE_R) or stored (PTE_W).
Access(addr, n, rw_flag) == [addr |-> addr, len |-> n, flag |-> rw_flag]

\* What a handler comes to: the value it returns (an error name, "ok" with
\* the number out, or "fault" when an access of the kernel trapped), the
\* table it leaves, the accesses to user memory it made, whether it indexed
\* iotab outside the table.
SysRes(val, out, tab, deref, oob) ==
    [val |-> val, out |-> out, iotab |-> tab, deref |-> deref, oob |-> oob]

SysErr(val, tab) == SysRes(val, -1, tab, {}, FALSE)

\* The first empty slot of the table from descriptor fd on other than skip;
\* PROCESS_IOMAX when there is none.
RECURSIVE FirstFree(_, _, _)
FirstFree(tab, fd, skip) ==
    IF fd >= PROCESS_IOMAX
    THEN PROCESS_IOMAX
    ELSE IF fd # skip /\ tab[fd] = NoIo
         THEN fd
         ELSE FirstFree(tab, fd + 1, skip)

\* The kernel's access traps when a user page of the range is not mapped
\* with the permission.  (The low addresses, the null pointer among them,
\* are mapped for the kernel by main_pt2.)
KernelFaults(mem, root, a) ==
    \E v \in UserVpn :
        /\ a.len > 0
        /\ v * PTE_CNT < a.addr + a.len
        /\ a.addr < (v + 1) * PTE_CNT
        /\ ~ ( /\ PTE_VALID(UserPte(mem, root, v))
               /\ HasFlag(UserPte(mem, root, v), a.flag) )

\* The loop of memory_validate_vstr at the character p: "none" when the
\* string ends on checked pages, "EACCESS" when it meets a page without the
\* flags, "fault" when the load of *p traps.
RECURSIVE VstrLoop(_, _, _, _, _)
VstrLoop(mem, root, p, ug_flags, dangling) ==
    LET pte == walk_pte(mem, root, VpnOf(p), dangling[VpnOf(p)])
    IN  IF \/ ~ PTE_VALID(pte)
           \/ BitAnd(PteFlags(pte), ug_flags) # ug_flags
        THEN "EACCESS"
        ELSE IF KernelFaults(mem, root, Access(p, 1, PTE_R))
        THEN "fault"
        ELSE IF UserRead(mem, root, VpnOf(p))[p % PTE_CNT] = 0
        THEN "none"
        ELSE IF p + 1 >= UMEM_END_VPN * PTE_CNT
        THEN "EACCESS"
        ELSE VstrLoop(mem, root, p + 1, ug_flags, dangling)

\* memory_validate_vstr(vs, ug_flags) in the space of root.
memory_validate_vstr(mem, root, vs, ug_flags, dangling) ==
    IF vs = 0
    THEN "EINVAL"
    ELSE VstrLoop(mem, root, vs, ug_flags, dangling)

\* What a handler that validated the string name comes to when the
\* validation did not return 0.
NameErr(v, tab, name) ==
    IF v = "fault"
    THEN SysRes("fault", -1, tab, { Access(name, 1, PTE_R) }, FALSE)
    ELSE SysErr(v, tab)

\* build_stack reads argv[i] and the string it points to, for each i < argc.
build_stack(argc, argv) ==
    IF argc > 0 THEN { Access(argv, argc, PTE_R) } ELSE {}

\* sysexec(fd, argc, argv).  slot is what the read of iotab[fd] yields when
\* fd is outside the table, elf whether elf_load accepts what the object
\* holds.  process_exec builds the stack, loads the image (it panics when
\* that fails) and does not return.
sysexec(mem, root, tab, fd, argc, argv, slot, elf) ==
    LET io == IF fd \in Fd THEN tab[fd] ELSE slot
        deref == build_stack(argc, argv)
    IN  IF io = NoIo
        THEN SysRes("EBADFD", -1, tab, {}, fd \notin Fd)
        ELSE IF (\E a \in deref : KernelFaults(mem, root, a)) \/ io = "wild"
        THEN SysRes("fault", -1, tab, deref, fd \notin Fd)
        ELSE IF io # "file" \/ ~ elf
        THEN SysRes("panic", -1, tab, deref, fd \notin Fd)
        ELSE SysRes("exec", -1, tab, deref, fd \notin Fd)

\* sysprint(msg).
sysprint(mem, root, tab, msg, dangling) ==
    LET v == memory_validate_vstr(mem, root, msg, PTE_U, dangling)
    IN  IF v # "none"
        THEN NameErr(v, tab, msg)
        ELSE SysRes("ok", 0, tab, { Access(msg, 1, PTE_R) }, FALSE)

\* The part sysdevopen and sysfsopen share after the name is validated: io
\* is the object open_device or fsopen stores into the slot, or its error.
OpenInto(tab, fd, name, io) ==
    IF fd >= PROCESS_IOMAX
    THEN SysErr("EBADFD", tab)
    ELSE LET nfd == IF fd < 0 THEN FirstFree(tab, 0, -1) ELSE fd
         IN  IF nfd >= PROCESS_IOMAX
             THEN SysErr("EMFILE", tab)
             ELSE IF io \notin { "dev", "file" }
             THEN SysRes(io, -1, tab, { Access(name, 1, PTE_R) }, FALSE)
             ELSE SysRes("ok", nfd, [tab EXCEPT ![nfd] = io],
                         { Access(name, 1, PTE_R) }, FALSE)

\* sysdevopen(fd, name, instno).
sysdevopen(mem, root, tab, fd, name, dangling, io) ==
    LET v == memory_validate_vstr(mem, root, name, PTE_U, dangling)
    IN  IF v # "none" THEN NameErr(v, tab, name) ELSE OpenInto(tab, fd, name, io)

\* sysfsopen(fd, name).
sysfsopen(mem, root, tab, fd, name, dangling, io) ==
    LET v == memory_validate_vstr(mem, root, name, PTE_U, dangling)
    IN  IF v # "none" THEN NameErr(v, tab, name) ELSE OpenInto(tab, fd, name, io)

\* sysfscreate(name); res is what fscreate returns.
sysfscreate(mem, root, tab, name, dangling, res) ==
    LET v == memory_validate_vstr(mem, root, name, PTE_U, dangling)
    IN  IF v # "none"
        THEN NameErr(v, tab, name)
        ELSE SysRes(res, 0, tab, { Access(name, 1, PTE_R) }, FALSE)

\* sysfsdelete(name); res is what fsdelete returns.
sysfsdelete(mem, root, tab, name, dangling, res) ==
    LET v == memory_validate_vstr(mem, root, name, PTE_U, dangling)
    IN  IF v # "none"
        THEN NameErr(v, tab, name)
        ELSE SysRes(res, 0, tab, { Access(name, 1, PTE_R) }, FALSE)

\* The descriptor check of sysclose, sysread, syswrite and sysioctl.
BadFd(tab, fd) == fd < 0 \/ fd >= PROCESS_IOMAX \/ tab[fd] = NoIo

\* sysclose(fd).
sysclose(tab, fd) ==
    IF BadFd(tab, fd)
    THEN SysErr("EBADFD", tab)
    ELSE SysRes("ok", 0, [tab EXCEPT ![fd] = NoIo], {}, FALSE)

\* The numbers of words an object moves when asked for len: the null device
\* none, the others none or all.
IoXfer(io, len) == IF io = "null" THEN { 0 } ELSE { 0, len }

\* What sysread and syswrite return when the object moved n of len words
\* with the accesses deref.
XferRes(mem, root, tab, n, len, deref) ==
    IF \E a \in deref : KernelFaults(mem, root, a)
    THEN SysRes("fault", -1, tab, deref, FALSE)
    ELSE IF n < len
    THEN SysRes("EINVAL", -1, tab, deref, FALSE)
    ELSE SysRes("ok", n, tab, deref, FALSE)

\* sysread(fd, buf, bufsz); the object stores n words into buf.
sysread(mem, root, tab, fd, buf, bufsz, dangling, n) ==
    LET v == memory_validate_vptr_len(mem, root, buf, bufsz, PTE_R + PTE_U,
                                      dangling)
    IN  IF v # "none"
        THEN SysErr(v, tab)
        ELSE IF BadFd(tab, fd)
        THEN SysErr("EBADFD", tab)
        ELSE XferRes(mem, root, tab, n, bufsz,
                     IF n > 0 THEN { Access(buf, n, PTE_W) } ELSE {})

\* syswrite(fd, buf, len); the object loads n words from buf.
syswrite(mem, root, tab, fd, buf, len, dangling, n) ==
    LET v == memory_validate_vptr_len(mem, root, buf, len, PTE_W + PTE_U,
                                      dangling)
    IN  IF v # "none" /\ len # 0
        THEN SysErr(v, tab)
        ELSE IF BadFd(tab, fd)
        THEN SysErr("EBADFD", tab)
        ELSE XferRes(mem, root, tab, n, len,
                     IF n > 0 THEN { Access(buf, n, PTE_R) } ELSE {})

\* The commands with an argument: the object stores through arg
\* (IOCTL_GETEND) or loads through it (IOCTL_SETEND).
IoctlCmd == { "IOCTL_GETEND", "IOCTL_SETEND" }

\* sysioctl(fd, cmd, arg).  The null device has no cntl function.
sysioctl(mem, root, tab, fd, cmd, arg) ==
    IF BadFd(tab, fd)
    THEN SysErr("EBADFD", tab)
    ELSE IF tab[fd] = "null"
    THEN SysErr("ENOTSUP", tab)
    ELSE LET deref == { Access(arg, 1, IF cmd = "IOCTL_GETEND"
                                        THEN PTE_W ELSE PTE_R) }
         IN  IF \E a \in deref : KernelFaults(mem, root, a)
             THEN SysRes("fault", -1, tab, deref, FALSE)
             ELSE SysRes("ok", 0, tab, deref, FALSE)

\* syspipe(wfdptr, rfdptr); wfd0 and rfd0 are the numbers the loads of
\* *wfdptr and *rfdptr yield.
syspipe(mem, root, tab, wfdptr, rfdptr, wfd0, rfd0) ==
    LET loads == { Access(wfdptr, 1, PTE_R), Access(rfdptr, 1, PTE_R) }
        stores == { Access(wfdptr, 1, PTE_W), Access(rfdptr, 1, PTE_W) }
        wfd == IF wfd0 < 0 THEN FirstFree(tab, 0, -1) ELSE wfd0
        rfd == IF rfd0 < 0 THEN FirstFree(tab, 0, wfd) ELSE rfd0
        piped == [tab EXCEPT ![wfd] = "pipe_w", ![rfd] = "pipe_r"]
    IN  IF wfdptr = 0 \/ rfdptr = 0
        THEN SysErr("EINVAL", tab)
        ELSE IF \E a \in loads : KernelFaults(mem, root, a)
        THEN SysRes("fault", -1, tab, loads, FALSE)
        ELSE IF wfd0 >= PROCESS_IOMAX \/ rfd0 >= PROCESS_IOMAX
        THEN SysRes("EBADFD", -1, tab, loads, FALSE)
        ELSE IF wfd = PROCESS_IOMAX \/ rfd = PROCESS_IOMAX
        THEN SysRes("EMFILE", -1, tab, loads, FALSE)
        ELSE IF wfd = rfd
        THEN SysRes("EINVAL", -1, tab, loads, FALSE)
        ELSE IF \E a \in stores : KernelFaults(mem, root, a)
        THEN SysRes("fault", -1, piped, loads \cup stores, FALSE)
        ELSE SysRes("ok", 0, piped, loads \cup stores, FALSE)

\* sysiodup(oldfd, newfd).  slot is what the read of iotab[oldfd] yields when
\* oldfd is outside the table.
sysiodup(tab, oldfd, newfd, slot) ==
    LET io == IF oldfd \in Fd THEN tab[oldfd] ELSE slot
        nfd == IF newfd < 0 THEN FirstFree(tab, 0, -1) ELSE newfd
    IN  IF io = NoIo
        THEN SysRes("EMFILE", -1, tab, {}, oldfd \notin Fd)
        ELSE IF oldfd < 0 \/ oldfd >= PROCESS_IOMAX \/ newfd >= PROCESS_IOMAX
        THEN SysRes("EBADFD", -1, tab, {}, oldfd \notin Fd)
        ELSE IF nfd >= PROCESS_IOMAX
        THEN SysErr("EMFILE", tab)
        ELSE SysRes("ok", nfd, [tab EXCEPT ![nfd] = io], {}, FALSE)

\* syscall(): the case of SYSCALL_IODUP has no break and runs on into the
\* default case, which replaces the result of sysiodup by -ENOTSUP.
syscall_iodup(r) == [r EXCEPT !.val = IF r.val = "fault" THEN "fault" ELSE "ENOTSUP",
                              !.out = -1]

\* ---- the system calls of a process ----

SysCall ==
    /\ sys_st = "run"
    /\ sys_calls < MaxSysCalls
    /\ sys_calls' = sys_calls + 1

\* The handler returned r to the call described by args.
SysReturn(args, r) ==
    /\ iotab' = r.iotab
    /\ sys_ret' = [args EXCEPT !.val = r.val, !.out = r.out, !.deref = r.deref,
                               !.oob = r.oob, !.before = iotab]
    /\ sys_st' = IF r.val \in { "fault", "panic", "exec" } THEN r.val ELSE "run"
    /\ UNCHANGED memVars

\* What a read of iotab outside the table yields: a null pointer or not.
WildSlot == { NoIo, "wild" }

\* The reads through pointers of finished walk_pte calls on the pages of
\* [ptr, ptr + len), or on the page of ptr.
SysDangling(ptr, len) ==
    IF ptr = 0
    THEN { [v \in UserVpn |-> null_pte] }
    ELSE DanglingReads(phys_mem, satp, { VpnOf(ptr) } \cup ValidatedPages(ptr, len))

SysExec(fd, argc, argv) ==
    /\ SysCall
    /\ \E slot \in WildSlot, elf \in BOOLEAN :
         SysReturn([NoSysRet EXCEPT !.op = "exec", !.fd = fd, !.ptr = argv,
                                    !.len = argc],
                   sysexec(phys_mem, satp, iotab, fd, argc, argv, slot, elf))

SysPrint(msg) ==
    /\ SysCall
    /\ \E d \in SysDangling(msg, 1) :
         SysReturn([NoSysRet EXCEPT !.op = "print", !.ptr = msg, !.len = 1],
                   sysprint(phys_mem, satp, iotab, msg, d))

SysDevopen(fd, name) ==
    /\ SysCall
    /\ \E d \in SysDangling(name, 1), io \in { "dev", "ENODEV" } :
         SysReturn([NoSysRet EXCEPT !.op = "devopen", !.fd = fd, !.ptr = name,
                                    !.len = 1],
                   sysdevopen(phys_mem, satp, iotab, fd, name, d, io))

SysFsopen(fd, name) ==
    /\ SysCall
    /\ \E d \in SysDangling(name, 1), io \in { "file", "ENOENT" } :
         SysReturn([NoSysRet EXCEPT !.op = "fsopen", !.fd = fd, !.ptr = name,
                                    !.len = 1],
                   sysfsopen(phys_mem, satp, iotab, fd, name, d, io))

SysFscreate(name) ==
    /\ SysCall
    /\ \E d \in SysDangling(name, 1), res \in { "ok", "EINVAL" } :
         SysReturn([NoSysRet EXCEPT !.op = "fscreate", !.ptr = name, !.len = 1],
                   sysfscreate(phys_mem, satp, iotab, name, d, res))

SysFsdelete(name) ==
    /\ SysCall
    /\ \E d \in SysDangling(name, 1), res \in { "ok", "ENOENT" } :
         SysReturn([NoSysRet EXCEPT !.op = "fsdelete", !.ptr = name, !.len = 1],
                   sysfsdelete(phys_mem, satp, iotab, name, d, res))

SysClose(fd) ==
    /\ SysCall
    /\ SysReturn([NoSysRet EXCEPT !.op = "close", !.fd = fd], sysclose(iotab, fd))

SysRead(fd, buf, bufsz) ==
    /\ SysCall
    /\ \E d \in SysDangling(buf, bufsz),
          n \in IoXfer(IF fd \in Fd THEN iotab[fd] ELSE NoIo, bufsz) :
         SysReturn([NoSysRet EXCEPT !.op = "read", !.fd = fd, !.ptr = buf,
                                    !.len = bufsz],
                   sysread(phys_mem, satp, iotab, fd, buf, bufsz, d, n))

SysWrite(fd, buf, len) ==
    /\ SysCall
    /\ \E d \in SysDangling(buf, len),
          n \in IoXfer(IF fd \in Fd THEN iotab[fd] ELSE NoIo, len) :
         SysReturn([NoSysRet EXCEPT !.op = "write", !.fd = fd, !.ptr = buf,
                                    !.len = len],
                   syswrite(phys_mem, satp, iotab, fd, buf, len, d, n))

SysIoctl(fd, cmd, arg) ==
    /\ SysCall
    /\ SysReturn([NoSysRet EXCEPT !.op = cmd, !.fd = fd, !.ptr = arg, !.len = 1],
                 sysioctl(phys_mem, satp, iotab, fd, cmd, arg))

SysPipe(wfdptr, rfdptr, wfd0, rfd0) ==
    /\ SysCall
    /\ SysReturn([NoSysRet EXCEPT !.op = "pipe", !.fd = wfd0, !.fd2 = rfd0,
                                  !.ptr = wfdptr, !.ptr2 = rfdptr, !.len = 1],
                 syspipe(phys_mem, satp, iotab, wfdptr, rfdptr, wfd0, rfd0))

SysIodup(oldfd, newfd) ==
    /\ SysCall
    /\ \E slot \in WildSlot :
         \E r \in { sysiodup(iotab, oldfd, newfd, slot) } :
           SysReturn([NoSysRet EXCEPT !.op = "iodup", !.fd = oldfd, !.fd2 = newfd,
                                      !.addref = IF r.val = "ok" THEN 1 ELSE 0],
                     syscall_iodup(r))

\* The pages a process has when it starts to make system calls: the first
\* user page and the one after it.
SysMapVpn == { UMEM_START_VPN, UMEM_START_VPN + 1 }

SysNext ==
    \/ /\ sys_calls = 0
       /\ mem_calls < MaxSysMaps
       /\ \E v \in SysMapVpn, f \in UserFlags : MspaceMap(v, f)
       /\ MemFrame
    \/ (\E fd \in SysFd, argc \in SysArgc, argv \in SysPtr :
          SysExec(fd, argc, argv)) /\ SysFrame
    \/ (\E msg \in SysPtr : SysPrint(msg)) /\ SysFrame
    \/ (\E fd \in SysFd, name \in SysPtr : SysDevopen(fd, name)) /\ SysFrame
    \/ (\E fd \in SysFd, name \in SysPtr : SysFsopen(fd, name)) /\ SysFrame
    \/ (\E name \in SysPtr : SysFscreate(name)) /\ SysFrame
    \/ (\E name \in SysPtr : SysFsdelete(name)) /\ SysFrame
    \/ (\E fd \in SysFd : SysClose(fd)) /\ SysFrame
    \/ (\E fd \in SysFd, buf \in SysPtr, bufsz \in SysLen :
          SysRead(fd, buf, bufsz)) /\ SysFrame
    \/ (\E fd \in SysFd, buf \in SysPtr, len \in SysLen :
          SysWrite(fd, buf, len)) /\ SysFrame
    \/ (\E fd \in SysFd, cmd \in IoctlCmd, arg \in SysPtr :
          SysIoctl(fd, cmd, arg)) /\ SysFrame
    \/ (\E wfdptr \in SysPtr, rfdptr \in SysPtr, wfd0 \in SysFd, rfd0 \in SysFd :
          SysPipe(wfdptr, rfdptr, wfd0, rfd0)) /\ SysFrame
    \/ (\E oldfd \in SysFd, newfd \in SysFd : SysIodup(oldfd, newfd)) /\ SysFrame

\* ---- properties of the system calls ----

\* The user pointers of the last call, each with the number of words the
\* kernel accesses and the permission that access needs.
PtrArgs ==
    CASE sys_ret.op = "exec" -> { Access(sys_ret.ptr, sys_ret.len, PTE_R) }
      [] sys_ret.op \in { "print", "devopen", "fsopen", "fscreate", "fsdelete" }
           -> { Access(sys_ret.ptr, 1, PTE_R) }
      [] sys_ret.op = "read" -> { Access(sys_ret.ptr, sys_ret.len, PTE_W) }
      [] sys_ret.op = "write" -> { Access(sys_ret.ptr, sys_ret.len, PTE_R) }
      [] sys_ret.op = "IOCTL_GETEND" -> { Access(sys_ret.ptr, 1, PTE_W) }
      [] sys_ret.op = "IOCTL_SETEND" -> { Access(sys_ret.ptr, 1, PTE_R) }
      [] sys_ret.op = "pipe" -> { Access(sys_ret.ptr, 1, PTE_W),
                                 Access(sys_ret.ptr2, 1, PTE_W) }
      [] OTHER -> {}

\* The pointer is null, or a page of its range is not a user page mapped
\* with the permission.
InvalidPtr(a) ==
    \/ a.addr = 0
    \/ \E v \in PagesOfRange(a.addr, a.len) : ~ MappedWith(v, a.flag + PTE_U)

\* C12: a system call that is passed an invalid user pointer (null, or with
\* a page that is not mapped for the user with the permission the kernel's
\* access needs) returns -EINVAL or -EACCESS, makes no access to user memory
\* and does not bring the kernel to a fault or panic.
C12_PointersValidatedBeforeUse ==
    (\E a \in PtrArgs : InvalidPtr(a))
    => /\ sys_ret.val \in { "EINVAL", "EACCESS" }
       /\ sys_ret.deref = {}
       /\ sys_st = "run"

\* The descriptor argument of the last call, for the calls that use an open
\* descriptor.
FdOps == { "exec", "close", "read", "write", "IOCTL_GETEND", "IOCTL_SETEND",
           "iodup" }

\* The last call asked for a descriptor to be chosen.
AsksForFd ==
    \/ sys_ret.op \in { "devopen", "fsopen" } /\ sys_ret.fd < 0
    \/ sys_ret.op = "pipe" /\ (sys_ret.fd < 0 \/ sys_ret.fd2 < 0)
    \/ sys_ret.op = "iodup" /\ sys_ret.fd2 < 0 /\ ~ BadFd(sys_ret.before, sys_ret.fd)

\* C14: a call whose descriptor is negative, not below PROCESS_IOMAX or names
\* an empty slot returns -EBADFD, does not index iotab outside the table and
\* leaves every slot as it was; a call that is asked to choose a descriptor
\* and whose pointers are valid returns -EMFILE exactly when no slot is empty.
C14_DescriptorsChecked ==
    /\ (sys_ret.op \in FdOps /\ BadFd(sys_ret.before, sys_ret.fd))
       => /\ sys_ret.val = "EBADFD"
          /\ ~ sys_ret.oob
          /\ iotab = sys_ret.before
    /\ (AsksForFd /\ \A a \in PtrArgs : ~ InvalidPtr(a))
       => (sys_ret.val = "EMFILE"
             <=> \A fd \in Fd : sys_ret.before[fd] # NoIo)

\* C23: an iodup that succeeds returns the new descriptor, which then refers
\* to the object of the old one, whose reference count has grown by one; an
\* iodup that returns an error has changed no descriptor slot and no
\* reference count.
C23_IodupResult ==
    (sys_ret.op = "iodup" /\ sys_ret.val # "fault")
    => IF sys_ret.val = "ok"
       THEN /\ sys_ret.out \in Fd
            /\ sys_ret.fd \in Fd
            /\ iotab[sys_ret.out] = iotab[sys_ret.fd]
            /\ iotab[sys_ret.fd] # NoIo
            /\ sys_ret.addref = 1
       ELSE /\ iotab = sys_ret.before
            /\ sys_ret.addref = 0

\* ======================================================================
\* I/O OBJECTS AND THEIR REFERENCE COUNTS (sys/io.c)
\* ======================================================================

NumIo == 3          \* I/O objects of a run
MaxIoCalls == 6     \* calls in one run
RefcntBits == 4     \* bits kept of the unsigned long refcnt

IoObj == 1 .. NumIo
NoLog == [init |-> 0, adds |-> 0, closes |-> 0, ran |-> 0]

IoInit ==
    /\ io_kind = [o \in IoObj |-> "none"]
    /\ io_refcnt = [o \in IoObj |-> 0]
    /\ io_bkgio = [o \in IoObj |-> NULL]
    /\ io_held = [o \in IoObj |-> 0]
    /\ io_log = [o \in IoObj |-> NoLog]
    /\ io_st = "run"
    /\ io_calls = 0

IoCall ==
    /\ io_st = "run"
    /\ io_calls < MaxIoCalls
    /\ io_calls' = io_calls + 1

\* The objects as a call works on them; ok is FALSE after a failed assert.
IoState == [kind |-> io_kind, refcnt |-> io_refcnt, bkgio |-> io_bkgio,
            log |-> io_log, ok |-> TRUE]

\* x - 1 on an unsigned long.
UlongDec(x) == (x + 2 ^ RefcntBits - 1) % (2 ^ RefcntBits)

\* ioinit1(io, intf).
ioinit1(st, o, kind) ==
    [st EXCEPT !.kind[o] = kind, !.refcnt[o] = 1, !.log[o].init = 1]

\* ioaddref(io).
ioaddref_refcnt(st, o) ==
    [st EXCEPT !.refcnt[o] = @ + 1, !.log[o].adds = @ + 1]

\* seekio_close, up to its call of ioclose: sio->bkgio->refcnt--.
seekio_close(st, o) ==
    [st EXCEPT !.refcnt[st.bkgio[o]] = UlongDec(@)]

\* ioclose(io): the count is taken down, and at zero the close function of
\* the object runs; the one of a seekable wrapper closes the backing endpoint.
RECURSIVE ioclose_refcnt(_, _)
ioclose_refcnt(st, o) ==
    IF ~ st.ok \/ st.refcnt[o] = 0
    THEN [st EXCEPT !.ok = FALSE]
    ELSE LET d == [st EXCEPT !.refcnt[o] = @ - 1, !.log[o].closes = @ + 1]
         IN  IF d.refcnt[o] # 0
             THEN d
             ELSE LET r == [d EXCEPT !.log[o].ran = @ + 1]
                  IN  IF st.kind[o] = "seek"
                      THEN ioclose_refcnt(seekio_close(r, o), st.bkgio[o])
                      ELSE r

\* create_seekable_io(io) up to its return.
create_seekable_io(st, w, b) ==
    ioinit1([ioaddref_refcnt(st, b) EXCEPT !.bkgio[w] = b], w, "seek")

IoDone(st, refs) ==
    IF st.ok
    THEN /\ io_kind' = st.kind
         /\ io_refcnt' = st.refcnt
         /\ io_bkgio' = st.bkgio
         /\ io_log' = st.log
         /\ io_held' = refs
         /\ io_st' = "run"
    ELSE /\ io_st' = "panic"
         /\ UNCHANGED << io_kind, io_refcnt, io_bkgio, io_log, io_held >>

\* create_memory_io(buf, size): the caller gets the object with one reference.
IoCreateMemory(o) ==
    /\ IoCall
    /\ io_kind[o] = "none"
    /\ IoDone(ioinit1(IoState, o, "mem"), [io_held EXCEPT ![o] = 1])

\* A caller that holds a reference to the endpoint b wraps it.
IoCreateSeekable(w, b) ==
    /\ IoCall
    /\ io_kind[w] = "none"
    /\ io_kind[b] = "mem"
    /\ io_held[b] > 0
    /\ IoDone(create_seekable_io(IoState, w, b), [io_held EXCEPT ![w] = 1])

\* ktfs_open: *ioptr = create_seekable_io(ioinit1(&my_file->io, &ktfs_intf));
\* the caller gets the wrapper only.
IoOpenFile(w, b) ==
    /\ IoCall
    /\ w # b
    /\ io_kind[w] = "none"
    /\ io_kind[b] = "none"
    /\ IoDone(create_seekable_io(ioinit1(IoState, b, "file"), w, b),
              [io_held EXCEPT ![w] = 1])

\* A caller that holds a reference takes another one.
IoAddRef(o) ==
    /\ IoCall
    /\ io_held[o] > 0
    /\ IoDone(ioaddref_refcnt(IoState, o), [io_held EXCEPT ![o] = @ + 1])

\* A caller gives up a reference it holds.
IoClose(o) ==
    /\ IoCall
    /\ io_held[o] > 0
    /\ IoDone(ioclose_refcnt(IoState, o), [io_held EXCEPT ![o] = @ - 1])

IoNext ==
    \/ (\E o \in IoObj : IoCreateMemory(o)) /\ IoFrame
    \/ (\E w, b \in IoObj : IoCreateSeekable(w, b)) /\ IoFrame
    \/ (\E w, b \in IoObj : IoOpenFile(w, b)) /\ IoFrame
    \/ (\E o \in IoObj : IoAddRef(o)) /\ IoFrame
    \/ (\E o \in IoObj : IoClose(o)) /\ IoFrame

\* ---- properties of the reference counts ----

\* C22: the reference count of every I/O object is its initial count plus
\* the calls of ioaddref less the calls of ioclose on it (it changes by one
\* in these two functions only and never passes below zero), and its close
\* function has run once if the calls of ioclose have reached the initial
\* count plus the calls of ioaddref, and not at all before; this holds for
\* the backing endpoint of a seekable wrapper too.
C22_CloseAtLastReference ==
    \A o \in IoObj :
        (io_kind[o] # "none")
        => /\ io_refcnt[o] = io_log[o].init + io_log[o].adds - io_log[o].closes
           /\ io_log[o].ran =
                 IF io_log[o].closes = io_log[o].init + io_log[o].adds
                 THEN 1 ELSE 0

\* ======================================================================
\* PROCESSES: FORK, EXIT, WAIT (sys/process.c)
\* ======================================================================

NPROC == 4          \* process slots, slot 0 being the main process
MaxProcCalls == 10  \* system calls in one run
ParentA0 == 7       \* a0 of the trap frame of a caller of fork

ProcSlot == 0 .. (NPROC - 1)
NoPrLoc == [pn |-> NULL, child |-> NULL, a0 |-> NULL]
NoPrRet == [op |-> "none", tid |-> NULL, err |-> "none", val |-> NULL]

\* procmgr_init, with the threads of thrmgr_init: main runs as process 0 and
\* the idle thread is ready.
ProcInit ==
    /\ proctab = [pn \in ProcSlot |-> IF pn = 0 THEN "live" ELSE "NULL"]
    /\ pr_thr = [t \in Tid |-> IF t = MAIN_TID THEN "RUNNING"
                               ELSE IF t = IDLE_TID THEN "READY" ELSE "NONE"]
    /\ pr_parent = [t \in Tid |-> NULL]
    /\ pr_proc = [t \in Tid |-> IF t = MAIN_TID THEN 0 ELSE NULL]
    /\ pr_pc = [t \in Tid |-> IF t = MAIN_TID THEN "user"
                              ELSE IF t = IDLE_TID THEN "idle" ELSE "none"]
    /\ pr_loc = [t \in Tid |-> NoPrLoc]
    /\ pr_run = MAIN_TID
    /\ pr_ready = << IDLE_TID >>
    /\ pr_ret = NoPrRet
    /\ pr_calls = 0

\* Thread t runs in user mode and makes a system call.
PrCall(t) ==
    /\ pr_run = t
    /\ pr_thr[t] = "RUNNING"
    /\ pr_pc[t] = "user"
    /\ pr_calls < MaxProcCalls
    /\ pr_calls' = pr_calls + 1

\* Thread t is the running thread and stands at pc inside a call.
PrAt(t, pc) ==
    /\ pr_run = t
    /\ pr_thr[t] = "RUNNING"
    /\ pr_pc[t] = pc
    /\ UNCHANGED pr_calls

\* The lowest free process slot, NPROC if there is none.
RECURSIVE FreeProc(_, _)
FreeProc(tab, pn) ==
    IF pn >= NPROC \/ tab[pn] = "NULL" THEN pn ELSE FreeProc(tab, pn + 1)

\* create_thread: the lowest free thread slot, NTHR if there is none.
RECURSIVE FreeThread(_, _)
FreeThread(thr, tid) ==
    IF tid >= NTHR \/ thr[tid] = "NONE" THEN tid ELSE FreeThread(thr, tid + 1)

\* running_thread_suspend by thread t with thread states thr: the caller goes
\* back to the ready list if it is still RUNNING, the head of the ready list
\* runs next.
PrSuspend(t, thr, ready) ==
    LET rl == IF thr[t] = "RUNNING" THEN Append(ready, t) ELSE ready
        st == IF thr[t] = "RUNNING" THEN [thr EXCEPT ![t] = "READY"] ELSE thr
    IN  /\ pr_run' = Head(rl)
        /\ pr_ready' = Tail(rl)
        /\ pr_thr' = [st EXCEPT ![Head(rl)] = "RUNNING"]

\* condition_broadcast on a condition whose only waiter can be thread w, which
\* waits on it when it stands at pc.
PrBroadcast(w, pc, thr, ready) ==
    IF w # NULL /\ thr[w] = "WAITING" /\ pr_pc[w] = pc
    THEN [thr |-> [thr EXCEPT ![w] = "READY"], ready |-> Append(ready, w)]
    ELSE [thr |-> thr, ready |-> ready]

\* The call of thread t returns to user mode.
PrReturn(t, op, err, val) ==
    /\ pr_ret' = [op |-> op, tid |-> t, err |-> err, val |-> val]
    /\ pr_pc' = [pr_pc EXCEPT ![t] = "user"]

\* thread_spawn that switches to the child at once.
thread_spawn_switch(t, c, thr, ready) ==
    [thr |-> [thr EXCEPT ![c] = "RUNNING", ![t] = "READY"],
     ready |-> Append(ready, t), run |-> c]

\* thread_spawn in process_fork: the child c is READY at the tail of the ready
\* list; the caller keeps running.
thread_spawn_fork(t, c, thr, ready) ==
    [thr |-> [thr EXCEPT ![c] = "READY"], ready |-> Append(ready, c), run |-> t]

\* process_fork up to the return of thread_spawn.
process_fork(t) ==
    /\ PrCall(t)
    /\ LET pn == FreeProc(proctab, 1)
           c == FreeThread(pr_thr, 1)
       IN  IF pn = NPROC
           THEN /\ PrReturn(t, "fork", "EMPROC", NULL)
                /\ UNCHANGED << proctab, pr_thr, pr_parent, pr_proc, pr_loc,
                                pr_run, pr_ready >>
           ELSE IF c = NTHR
           THEN /\ PrReturn(t, "fork", "EMTHR", NULL)
                /\ UNCHANGED << proctab, pr_thr, pr_parent, pr_proc, pr_loc,
                                pr_run, pr_ready >>
           ELSE LET sp == thread_spawn_fork(t, c, pr_thr, pr_ready)
                IN  /\ pr_thr' = sp.thr
                    /\ pr_ready' = sp.ready
                    /\ pr_run' = sp.run
                    /\ pr_parent' = [pr_parent EXCEPT ![c] = t]
                    /\ pr_proc' = [pr_proc EXCEPT ![c] = NULL]
                    /\ pr_pc' = [pr_pc EXCEPT ![t] = "fork_clone", ![c] = "fork_func"]
                    /\ pr_loc' = [pr_loc EXCEPT
                                    ![t] = [NoPrLoc EXCEPT !.pn = pn, !.child = c],
                                    ![c] = [NoPrLoc EXCEPT !.a0 = ParentA0]]
                    /\ pr_ret' = [op |-> "fork_spawn", tid |-> t, err |-> "none",
                                   val |-> c]
                    /\ UNCHANGED proctab

\* process_fork from clone_active_mspace to the loop over the descriptors: the
\* child's process record is in proctab and set as the process of its thread.
process_fork_prepare(t) ==
    /\ PrAt(t, "fork_clone")
    /\ proctab' = [proctab EXCEPT ![pr_loc[t].pn] = "live"]
    /\ pr_proc' = [pr_proc EXCEPT ![pr_loc[t].child] = pr_loc[t].pn]
    /\ pr_pc' = [pr_pc EXCEPT ![t] = "fork_cw"]
    /\ UNCHANGED << pr_thr, pr_parent, pr_loc, pr_run, pr_ready, pr_ret >>

\* process_fork: condition_wait(&forked).
process_fork_wait(t) ==
    /\ PrAt(t, "fork_cw")
    /\ PrSuspend(t, [pr_thr EXCEPT ![t] = "WAITING"], pr_ready)
    /\ pr_pc' = [pr_pc EXCEPT ![t] = "fork_wait"]
    /\ UNCHANGED << proctab, pr_parent, pr_proc, pr_loc, pr_ret >>

\* process_fork: return child_tid, once the wait is over.
process_fork_return(t) ==
    /\ PrAt(t, "fork_wait")
    /\ PrReturn(t, "fork", "none", pr_loc[t].child)
    /\ pr_loc' = [pr_loc EXCEPT ![t] = NoPrLoc]
    /\ UNCHANGED << proctab, pr_thr, pr_parent, pr_proc, pr_run, pr_ready >>

\* fork_func, the entry of the child thread c: tfr->a0 = 0, the broadcast of
\* the parent's condition forked, and the jump to user mode.
fork_func(c) ==
    /\ PrAt(c, "fork_func")
    /\ LET b == PrBroadcast(pr_parent[c], "fork_wait", pr_thr, pr_ready)
       IN  /\ pr_thr' = b.thr
           /\ pr_ready' = b.ready
    /\ pr_loc' = [pr_loc EXCEPT ![c].a0 = 0]
    /\ pr_pc' = [pr_pc EXCEPT ![c] = "user"]
    /\ UNCHANGED << proctab, pr_parent, pr_proc, pr_run, pr_ret >>

\* process_exit: the main process panics; any other process closes its
\* descriptors, frees its record and its address space and ends in
\* thread_exit, which wakes a parent that waits for a child.
process_exit(t) ==
    /\ PrCall(t)
    /\ IF pr_proc[t] = 0
       THEN /\ pr_pc' = [pr_pc EXCEPT ![t] = "panic"]
            /\ pr_ret' = [op |-> "exit", tid |-> t, err |-> "panic", val |-> NULL]
            /\ UNCHANGED << proctab, pr_thr, pr_parent, pr_proc, pr_loc, pr_run,
                            pr_ready >>
       ELSE /\ proctab' = [proctab EXCEPT ![pr_proc[t]] = "freed"]
            /\ LET b == PrBroadcast(pr_parent[t], "join_wait", pr_thr, pr_ready)
               IN  PrSuspend(t, [b.thr EXCEPT ![t] = "EXITED"], b.ready)
            /\ pr_pc' = [pr_pc EXCEPT ![t] = "exited"]
            /\ pr_ret' = [op |-> "exit", tid |-> t, err |-> "none", val |-> NULL]
            /\ UNCHANGED << pr_parent, pr_proc, pr_loc >>

\* thread_join, the child looked for: tid itself, or for tid 0 the first
\* thread in 1..NTHR-2 that is a child of t (NTHR-1 where there is none).
RECURSIVE JoinChild(_, _)
JoinChild(t, c) ==
    IF c >= NTHR - 1 \/ (pr_thr[c] # "NONE" /\ pr_parent[c] = t)
    THEN c
    ELSE JoinChild(t, c + 1)

\* thread_join from the test of the child's state on: wait while the child
\* has not exited, else thread_reclaim (the children of c get its parent, its
\* slot is cleared) and return its id.
JoinLoop(t, c) ==
    IF pr_thr[c] # "EXITED"
    THEN /\ PrSuspend(t, [pr_thr EXCEPT ![t] = "WAITING"], pr_ready)
         /\ pr_pc' = [pr_pc EXCEPT ![t] = "join_wait"]
         /\ pr_loc' = [pr_loc EXCEPT ![t].child = c]
         /\ pr_ret' = [op |-> "wait_block", tid |-> t, err |-> "none", val |-> c]
         /\ UNCHANGED << proctab, pr_parent, pr_proc >>
    ELSE /\ pr_thr' = [pr_thr EXCEPT ![c] = "NONE"]
         /\ pr_parent' = [x \in Tid |->
                            IF pr_thr[x] # "NONE" /\ pr_parent[x] = c /\ x # c
                            THEN pr_parent[c] ELSE pr_parent[x]]
         /\ pr_pc' = [pr_pc EXCEPT ![c] = "none", ![t] = "user"]
         /\ pr_ret' = [op |-> "wait", tid |-> t, err |-> "none", val |-> c]
         /\ pr_loc' = [pr_loc EXCEPT ![t] = NoPrLoc, ![c] = NoPrLoc]
         /\ UNCHANGED << proctab, pr_proc, pr_run, pr_ready >>

\* syswait(tid): thread_join(tid).
syswait(t, tid) ==
    /\ PrCall(t)
    /\ LET c == IF tid = 0 THEN JoinChild(t, 1) ELSE tid
       IN  IF pr_thr[c] = "NONE" \/ pr_parent[c] # t
           THEN /\ PrReturn(t, "wait", "ECHILD", NULL)
                /\ UNCHANGED << proctab, pr_thr, pr_parent, pr_proc, pr_loc,
                                pr_run, pr_ready >>
           ELSE JoinLoop(t, c)

\* thread_join, woken from its condition_wait.
syswait_resume(t) ==
    /\ PrAt(t, "join_wait")
    /\ JoinLoop(t, pr_loc[t].child)

\* idle_thread_func: yields while the ready list is not empty.
ProcIdle ==
    /\ PrAt(IDLE_TID, "idle")
    /\ pr_ready # << >>
    /\ PrSuspend(IDLE_TID, pr_thr, pr_ready)
    /\ UNCHANGED << proctab, pr_parent, pr_proc, pr_pc, pr_loc, pr_ret >>

ProcNext ==
    \/ (\E t \in Tid : process_fork(t)) /\ ProcFrame
    \/ (\E t \in Tid : process_fork_prepare(t)) /\ ProcFrame
    \/ (\E t \in Tid : process_fork_wait(t)) /\ ProcFrame
    \/ (\E t \in Tid : process_fork_return(t)) /\ ProcFrame
    \/ (\E t \in Tid : fork_func(t)) /\ ProcFrame
    \/ (\E t \in Tid : process_exit(t)) /\ ProcFrame
    \/ (\E t \in Tid, tid \in Tid : syswait(t, tid)) /\ ProcFrame
    \/ (\E t \in Tid : syswait_resume(t)) /\ ProcFrame
    \/ ProcIdle /\ ProcFrame

\* ---- properties of the processes ----

\* The step is a call of process_fork, up to its error return or to the
\* return of thread_spawn.
Forks == pr_calls' # pr_calls /\ pr_ret'.op \in { "fork", "fork_spawn" }

\* The processes that are alive: forked and not exited.
LiveChildren == { pn \in 1 .. (NPROC - 1) : proctab[pn] = "live" }

\* C24: process_fork returns EMPROC exactly when every process slot in
\* 1..NPROC-1 holds a live process, and its thread_spawn returns EMTHR exactly
\* when every thread slot in 1..NTHR-1 is occupied; a slot is free again after
\* the join of the thread and after the exit of the process, so that a fork
\* made with fewer than NPROC-1 live children and a free thread slot succeeds.
C24_SlotsAreReused ==
    [][Forks =>
        /\ (pr_ret'.err = "EMPROC") <=> (Cardinality(LiveChildren) = NPROC - 1)
        /\ (pr_ret'.err = "EMTHR")
           <=> /\ Cardinality(LiveChildren) < NPROC - 1
               /\ \A c \in 1 .. (NTHR - 1) : pr_thr[c] # "NONE"]_vars


\* ---- fork and its child ----

\* The timer interrupt taken in user mode: the running thread yields through
\* running_thread_suspend.  Inside a system call interrupts stay disabled
\* from the trap on until the thread suspends itself.
user_preempt(t) ==
    /\ PrAt(t, "user")
    /\ PrSuspend(t, pr_thr, pr_ready)
    /\ UNCHANGED << proctab, pr_parent, pr_proc, pr_pc, pr_loc, pr_ret >>

ForkNext ==
    \/ (\E t \in Tid : process_fork(t)) /\ ProcFrame
    \/ (\E t \in Tid : process_fork_prepare(t)) /\ ProcFrame
    \/ (\E t \in Tid : process_fork_wait(t)) /\ ProcFrame
    \/ (\E t \in Tid : process_fork_return(t)) /\ ProcFrame
    \/ (\E t \in Tid : fork_func(t)) /\ ProcFrame
    \/ (\E t \in Tid : process_exit(t)) /\ ProcFrame
    \/ (\E t \in Tid, tid \in Tid : syswait(t, tid)) /\ ProcFrame
    \/ (\E t \in Tid : syswait_resume(t)) /\ ProcFrame
    \/ ProcIdle /\ ProcFrame
    \/ (\E t \in Tid : user_preempt(t)) /\ ProcFrame

\* The running thread takes its next step, whichever it is.
ForkFairness == WF_vars(ForkNext)

\* The step is fork_func run by thread c.
RunsForkFunc(c) == pr_pc[c] = "fork_func" /\ pr_pc'[c] # "fork_func"

\* The step is the return of a process_fork that succeeded.
ForkReturns == pr_ret' # pr_ret /\ pr_ret'.op = "fork" /\ pr_ret'.err = "none"

\* The main process has exited: the kernel has panicked and nothing runs.
Panicked == \E t \in Tid : pr_pc[t] = "panic"

NAlarmThr == 2      \* threads that sleep
MaxTime == 4        \* the clock stops here
MaxTcnt == 2        \* largest tick count passed to alarm_sleep
MaxAlarmCalls == 3  \* calls of alarm_sleep in one run

AlThr == 1 .. NAlarmThr
NoTmRet == [op |-> "none", now |-> 0, before |-> << >>, woken |-> {}]

TimerInit ==
    /\ tm_now = 0
    /\ sleep_list = << >>
    /\ al_twake = [t \in AlThr |-> 0]
    /\ al_st = [t \in AlThr |-> "run"]
    /\ stcmp = 0
    /\ stie = FALSE
    /\ tm_ret = NoTmRet
    /\ tm_calls = 0

\* Thread t can be the running thread: no other thread is between the insert
\* of its alarm and its condition_wait, where nothing switches threads.
OnCpu(t) == \A u \in AlThr \ { t } : al_st[u] # "armed"

\* alarm_insert_sorted(al): before the first alarm whose twake is not below.
RECURSIVE alarm_insert_sorted(_, _, _)
alarm_insert_sorted(list, twake, t) ==
    IF list # << >> /\ twake[Head(list)] < twake[t]
    THEN << Head(list) >> \o alarm_insert_sorted(Tail(list), twake, t)
    ELSE << t >> \o list

\* sleep_us / alarm_sleep up to its condition_wait: the alarm gets twake =
\* now + tcnt; a wake time that is not in the future returns at once.
alarm_sleep(t, tcnt) ==
    /\ al_st[t] = "run"
    /\ OnCpu(t)
    /\ tm_calls < MaxAlarmCalls
    /\ tm_now + tcnt <= MaxTime
    /\ tm_calls' = tm_calls + 1
    /\ LET twake == [al_twake EXCEPT ![t] = tm_now + tcnt]
           list == alarm_insert_sorted(sleep_list, twake, t)
       IN  /\ al_twake' = twake
           /\ IF twake[t] <= tm_now
              THEN /\ tm_ret' = [NoTmRet EXCEPT !.op = "nosleep", !.now = tm_now]
                   /\ UNCHANGED << sleep_list, al_st, stcmp, stie >>
              ELSE /\ sleep_list' = list
                   /\ stcmp' = IF Head(list) = t THEN twake[t] ELSE stcmp
                   /\ stie' = TRUE
                   /\ al_st' = [al_st EXCEPT ![t] = "armed"]
                   /\ tm_ret' = [NoTmRet EXCEPT !.op = "sleep", !.now = tm_now]
    /\ UNCHANGED tm_now

\* alarm_sleep: condition_wait(&al->cond).
alarm_sleep_wait(t) ==
    /\ al_st[t] = "armed"
    /\ al_st' = [al_st EXCEPT ![t] = "sleeping"]
    /\ tm_ret' = [NoTmRet EXCEPT !.op = "wait", !.now = tm_now]
    /\ UNCHANGED << tm_now, sleep_list, al_twake, stcmp, stie, tm_calls >>

\* The loop of handle_timer_interrupt: the head is taken off the list, then
\* its wake time is looked at; an alarm that is due is broadcast, one that is
\* not ends the loop.  The result is the list left and the alarms broadcast.
RECURSIVE TimerLoop(_, _, _, _)
TimerLoop(list, twake, now, woken) ==
    IF list = << >>
    THEN [list |-> list, woken |-> woken]
    ELSE IF twake[Head(list)] <= now
         THEN TimerLoop(Tail(list), twake, now, woken \cup { Head(list) })
         ELSE [list |-> Tail(list), woken |-> woken]

\* handle_timer_interrupt(), taken when the timer interrupt is enabled and
\* the time has reached stcmp.
handle_timer_interrupt ==
    /\ stie
    /\ tm_now >= stcmp
    /\ LET r == TimerLoop(sleep_list, al_twake, tm_now, {})
       IN  /\ sleep_list' = r.list
           /\ al_st' = [t \in AlThr |->
                          IF t \in r.woken /\ al_st[t] = "sleeping"
                          THEN "ready" ELSE al_st[t]]
           /\ stie' = (r.list # << >>)
           /\ stcmp' = IF r.list # << >> THEN al_twake[Head(r.list)] ELSE stcmp
           /\ tm_ret' = [op |-> "intr", now |-> tm_now, before |-> sleep_list,
                         woken |-> r.woken]
    /\ UNCHANGED << tm_now, al_twake, tm_calls >>

\* A thread made READY runs again and alarm_sleep returns.
alarm_sleep_return(t) ==
    /\ al_st[t] = "ready"
    /\ OnCpu(t)
    /\ al_st' = [al_st EXCEPT ![t] = "run"]
    /\ tm_ret' = [NoTmRet EXCEPT !.op = "return", !.now = tm_now]
    /\ UNCHANGED << tm_now, sleep_list, al_twake, stcmp, stie, tm_calls >>

\* The clock advances by one tick.
TimerTick ==
    /\ tm_now < MaxTime
    /\ tm_now' = tm_now + 1
    /\ tm_ret' = [NoTmRet EXCEPT !.op = "tick", !.now = tm_now + 1]
    /\ UNCHANGED << sleep_list, al_twake, al_st, stcmp, stie, tm_calls >>

TimerNext ==
    \/ (\E t \in AlThr, tcnt \in 0 .. MaxTcnt : alarm_sleep(t, tcnt)) /\ TimerFrame
    \/ (\E t \in AlThr : alarm_sleep_wait(t)) /\ TimerFrame
    \/ handle_timer_interrupt /\ TimerFrame
    \/ (\E t \in AlThr : alarm_sleep_return(t)) /\ TimerFrame
    \/ TimerTick /\ TimerFrame

\* The threads take their steps, time passes, and an interrupt that is
\* pending is taken.
TimerFairness ==
    /\ WF_vars(TimerTick /\ TimerFrame)
    /\ WF_vars(handle_timer_interrupt /\ TimerFrame)
    /\ \A t \in AlThr : WF_vars(alarm_sleep_wait(t) /\ TimerFrame)

\* ---- properties of the alarms ----

\* The elements of a sequence.
Range(s) == { s[i] : i \in 1 .. Len(s) }

\* C25: a timer interrupt makes every thread that sleeps with a wake time
\* not after the time of the interrupt READY and leaves every alarm whose
\* wake time is later on the sleep list; every thread that goes to sleep is
\* woken in the end.
C25_AlarmsWake ==
    /\ [][(tm_ret'.op = "intr" /\ tm_ret' # tm_ret) =>
            /\ \A t \in AlThr :
                 (al_st[t] = "sleeping" /\ al_twake[t] <= tm_now)
                 => al_st'[t] = "ready"
            /\ \A t \in Range(sleep_list) :
                 (al_twake[t] > tm_now) => t \in Range(sleep_list')]_vars
    /\ \A t \in AlThr : (al_st[t] = "sleeping") ~> (al_st[t] = "ready")

\* ======================================================================
\* THE BLOCK CACHE ON A BACKEND THAT CAN FAIL (sys/cache.c)
\* ======================================================================

EIO == 5            \* the error a failed transfer of the backend returns

MaxCacheIoCalls == 3    \* cache calls in one run

NoCacheIo == [ret |-> 0, idx |-> 0, block_id |-> 0, rdfail |-> FALSE,
              wrfail |-> FALSE, calls |-> 0]

CacheIoInit == cache_io = NoCacheIo

\* cache_get_block whose ioreadat returns rd: on a miss the entry is marked
\* for the block whatever rd is, and the data is what the device delivered,
\* nothing when rd is negative.  The result of ioreadat is not looked at.
cache_get_block_rd(tbl, data, clk, bk, pos, rd) ==
    LET g == cache_get_block(tbl, data, clk, bk, pos)
    IN  IF g.hit \/ rd >= 0 THEN g ELSE [g EXCEPT !.data = data]

\* cache_release_block whose iowriteat returns wr: the device has the block
\* only when wr is not negative.  The result of iowriteat is not looked at.
cache_release_block_wr(tbl, data, bk, idx, dirty, wr) ==
    LET r == cache_release_block(tbl, data, bk, idx, dirty)
    IN  IF wr >= 0 THEN r ELSE [r EXCEPT !.bk = bk]

\* What is known of a call: its result, the entry it used, and whether a
\* read or a write of the backend failed in it.
CacheIo(ret, g, pos, rd, dirty, wr) ==
    [ret |-> ret, idx |-> g.idx, block_id |-> pos \div CACHE_BLKSZ,
     rdfail |-> ~ g.hit /\ rd < 0, wrfail |-> dirty /\ wr < 0,
     calls |-> cache_io.calls + 1]

\* cache_read_at(pos, buf, bufsz) where the transfers of the backend return
\* rd and wr.
CacheReadAtIo(pos, bufsz, rd, wr) ==
    \E g \in { cache_get_block_rd(cache_table, cache_data, clock_idx, backend,
                                  (pos \div CACHE_BLKSZ) * CACHE_BLKSZ, rd) } :
    \E r \in { cache_release_block_wr(g.tbl, g.data, backend, g.idx,
                                      CACHE_ISDIRTY(g.tbl[g.idx]), wr) } :
        /\ cache_io' = CacheIo(ClampLen(pos, bufsz), g, pos, rd,
                               CACHE_ISDIRTY(g.tbl[g.idx]), wr)
        /\ cache_ret' = [op |-> "read", pos |-> pos,
                         data |-> [k \in 1 .. ClampLen(pos, bufsz) |->
                                     g.data[g.idx][(pos % CACHE_BLKSZ) + k - 1]],
                         hit |-> g.hit, was |-> {}]
        /\ cache_table' = r.tbl
        /\ cache_data' = g.data
        /\ backend' = r.bk
        /\ clock_idx' = g.clk
        /\ last_read_idx' = g.idx
        /\ UNCHANGED shadow

\* cache_write_at(pos, buf, len) where the transfers of the backend return rd
\* and wr.
CacheWriteAtIo(pos, buf, rd, wr) ==
    \E g \in { cache_get_block_rd(cache_table, cache_data, clock_idx, backend,
                                  (pos \div CACHE_BLKSZ) * CACHE_BLKSZ, rd) } :
    \E d \in { [g.data EXCEPT ![g.idx] =
                  CopyIn(@, pos % CACHE_BLKSZ, buf, ClampLen(pos, Len(buf)))] } :
    \E t \in { [g.tbl EXCEPT ![g.idx].flags = @ \cup {"DIRTY"}] } :
    \E r \in { cache_release_block_wr(t, d, backend, g.idx,
                                      CACHE_ISDIRTY(t[g.idx]), wr) } :
        /\ cache_io' = CacheIo(ClampLen(pos, Len(buf)), g, pos, rd, TRUE, wr)
        /\ cache_ret' = [op |-> "write", pos |-> pos, data |-> << >>,
                         hit |-> g.hit, was |-> {}]
        /\ cache_table' = r.tbl
        /\ cache_data' = d
        /\ backend' = r.bk
        /\ clock_idx' = g.clk
        /\ last_read_idx' = g.idx
        /\ shadow' = [shadow EXCEPT ![pos \div CACHE_BLKSZ] =
                         CopyIn(@, pos % CACHE_BLKSZ, buf, ClampLen(pos, Len(buf)))]

\* cache_flush on the same backend: it returns 0.
CacheFlushIo ==
    /\ cache_flush
    /\ cache_io' = [NoCacheIo EXCEPT !.ret = 0, !.calls = cache_io.calls + 1]

\* The results of a transfer of one block: done, or failed.
XferResult == { CACHE_BLKSZ, -EIO }

CacheIoCall == cache_io.calls < MaxCacheIoCalls /\ CacheIoFrame

CacheIoNext ==
    \/ CacheIoCall /\ \E pos \in DevPos, bufsz \in 1 .. MaxBufLen,
                          rd \in XferResult, wr \in XferResult :
                         CacheReadAtIo(pos, bufsz, rd, wr)
    \/ CacheIoCall /\ \E pos \in DevPos, buf \in Buffers,
                          rd \in XferResult, wr \in XferResult :
                         CacheWriteAtIo(pos, buf, rd, wr)
    \/ CacheIoCall /\ CacheFlushIo

\* ---- properties of the cache on a failing backend ----

\* C26: a cache call in which a read or a write of the backend returned a
\* negative result returns a negative result itself; after a failed read the
\* entry is not VALID for the block that was not read, and after a failed
\* write-back the entry is still DIRTY.
C26_BackendErrorsReported ==
    /\ (cache_io.rdfail \/ cache_io.wrfail) => cache_io.ret < 0
    /\ cache_io.rdfail
       => ~ (/\ CACHE_ISVALID(cache_table[cache_io.idx])
             /\ cache_table[cache_io.idx].block_id = cache_io.block_id)
    /\ cache_io.wrfail => CACHE_ISDIRTY(cache_table[cache_io.idx])

\* ======================================================================
\* THE SEEKABLE ENDPOINT OF AN OPEN FILE (sys/io.c, sys/ktfs.c)
\* ======================================================================

MaxSeekCalls == 4       \* filesystem calls in one run, the mount included
MaxSeekArg == 4         \* largest position given to SETPOS

NoSeekRet == [op |-> "none", name |-> 0, err |-> "none", val |-> 0,
              pos |-> 0, end |-> 0]

\* No seekable endpoint exists before a file is opened.
SeekInit ==
    /\ sio_pos = [nm \in Name |-> 0]
    /\ seek_ret = NoSeekRet

\* ktfs_cntl(IOCTL_GETBLKSZ): the block size create_seekable_io takes.
ktfs_cntl_getblksz == 1

\* ktfs_cntl(IOCTL_GETEND) on handle h.
ktfs_cntl_getend(h) == h.file_size

\* a - b < n as the code computes it, a and b unsigned 64-bit numbers below
\* 2^63 and n a long that is not negative: where b > a the difference wraps
\* to a number above every long.
UDiffLess(a, b, n) == a >= b /\ a - b < n

\* bufsz &= ~(blksz - 1), blksz a power of two.
BlkTrunc(n, blksz) == n - (n % blksz)

\* seekio_read(bufsz) on handle h at position pos.  Result: error, count, the
\* new position.
seekio_read(disk, h, pos, bufsz) ==
    LET blksz == ktfs_cntl_getblksz
        Rd(n) == LET r == ktfs_readat(disk, h, pos, BlkTrunc(n, blksz))
                 IN  [err |-> r.err, val |-> Len(r.data),
                      pos |-> IF r.err = "none" THEN pos + Len(r.data) ELSE pos]
    IN  IF UDiffLess(h.end, pos, bufsz) THEN Rd(h.end - pos)
        ELSE IF bufsz = 0 THEN [err |-> "none", val |-> 0, pos |-> pos]
        ELSE IF bufsz < blksz THEN [err |-> "EINVAL", val |-> 0, pos |-> pos]
        ELSE Rd(bufsz)

\* The first part of seekio_write(buf) on handle h at position pos, for a
\* buffer of at least one block: a write past the end asks the backing
\* endpoint for the new end, and the endpoint takes it when that returned 0.
\* e is the result of ioctl(bkgio, IOCTL_SETEND, pos + len).  Result: error,
\* volume, the handle.
seekio_write_end(disk, h, pos, len, e) ==
    IF UDiffLess(h.end, pos, len)
    THEN [err |-> e.err, disk |-> e.disk,
          h |-> [h EXCEPT !.file_size = e.file_size,
                          !.end = IF e.err = "none" THEN pos + len ELSE @]]
    ELSE [err |-> "none", disk |-> disk, h |-> h]

\* seekio_write(buf) on handle h at position pos; g is what the first part
\* left and w the result of iowriteat(bkgio, pos, buf, len).  Result: error,
\* count, volume, the handle, the new position.
seekio_write(disk, h, pos, buf, g, w) ==
    IF Len(buf) = 0
    THEN [err |-> "none", val |-> 0, disk |-> disk, h |-> h, pos |-> pos]
    ELSE IF Len(buf) < ktfs_cntl_getblksz
    THEN [err |-> "EINVAL", val |-> 0, disk |-> disk, h |-> h, pos |-> pos]
    ELSE IF g.err # "none"
    THEN [err |-> g.err, val |-> 0, disk |-> g.disk, h |-> g.h, pos |-> pos]
    ELSE [err |-> w.err, val |-> w.val, disk |-> w.disk, h |-> g.h,
          pos |-> IF w.err = "none" THEN pos + w.val ELSE pos]

\* seekio_cntl(IOCTL_SETPOS, arg) on handle h at position pos.
seekio_cntl_setpos(h, pos, arg) ==
    IF arg % ktfs_cntl_getblksz # 0 \/ arg > h.end
    THEN [err |-> "EINVAL", pos |-> pos]
    ELSE [err |-> "none", pos |-> arg]

\* A call on a mounted volume in a run of calls on seekable endpoints.
SeekCall == ktfs_calls < MaxSeekCalls /\ SeekFrame

\* What is kept of a call on the endpoint of nm.
SeekRet(op, nm, err, val) ==
    [op |-> op, name |-> nm, err |-> err, val |-> val,
     pos |-> sio_pos[nm], end |-> IF IsOpen(nm) THEN Handle(nm).end ELSE 0]

\* fsopen(nm): the seekable endpoint starts at position 0.
SeekOpen(nm) ==
    /\ KtfsOpen(nm, "NULL")
    /\ sio_pos' = [sio_pos EXCEPT ![nm] = 0]
    /\ seek_ret' = [NoSeekRet EXCEPT !.op = "open", !.name = nm,
                                     !.err = ktfs_ret'.err]

\* ioread(bufsz) on the endpoint of nm.
SeekRead(nm, bufsz) ==
    /\ FsCall
    /\ IsOpen(nm)
    /\ \E r \in { seekio_read(ktfs_disk, Handle(nm), sio_pos[nm], bufsz) } :
         /\ sio_pos' = [sio_pos EXCEPT ![nm] = r.pos]
         /\ seek_ret' = SeekRet("read", nm, r.err, r.val)
         /\ ktfs_ret' = [NoFsRet EXCEPT !.op = "read", !.name = nm,
                                        !.pos = sio_pos[nm], !.err = r.err,
                                        !.val = r.val]
    /\ ktfs_shadow' = Snapshot(ktfs_disk)
    /\ ktfs_seq' = SeqBreak
    /\ UNCHANGED << ktfs_disk, inode_bitmap, open_files, ktfs_ext >>

\* iowrite(buf) on the endpoint of nm: the one call of seekio_write it makes
\* for a buffer the endpoint takes whole.
SeekWrite(nm, buf) ==
    /\ FsCall
    /\ IsOpen(nm)
    /\ \E len \in { BlkTrunc(Len(buf), ktfs_cntl_getblksz) } :
       \E e \in { ktfs_ext_len(ktfs_disk, Handle(nm), sio_pos[nm] + len) } :
       \E g \in { seekio_write_end(ktfs_disk, Handle(nm), sio_pos[nm], len, e) } :
       \E w \in { ktfs_writeat(g.disk, g.h, sio_pos[nm], SubSeq(buf, 1, len)) } :
       \E r \in { seekio_write(ktfs_disk, Handle(nm), sio_pos[nm], buf, g, w) } :
         /\ sio_pos' = [sio_pos EXCEPT ![nm] = r.pos]
         /\ seek_ret' = SeekRet("write", nm, r.err, r.val)
         /\ ktfs_disk' = r.disk
         /\ open_files' = [k \in 1 .. Len(open_files) |->
                             IF open_files[k].name = nm THEN r.h ELSE open_files[k]]
         /\ ktfs_ret' = [NoFsRet EXCEPT !.op = "write", !.name = nm,
                                        !.pos = sio_pos[nm], !.buf = buf,
                                        !.err = r.err, !.val = r.val]
         /\ ktfs_shadow' = Snapshot(r.disk)
         /\ ktfs_ext' =
              IF r.err = "ENODATABLKS"
              THEN [ktfs_ext EXCEPT ![r.h.inode] = "failed"]
              ELSE IF r.h.file_size > Handle(nm).file_size
                      /\ ktfs_ext[r.h.inode] = "no"
              THEN [ktfs_ext EXCEPT ![r.h.inode] = "yes"]
              ELSE ktfs_ext
    /\ ktfs_seq' = SeqBreak
    /\ UNCHANGED inode_bitmap

\* ioctl(IOCTL_SETPOS, arg) on the endpoint of nm.
SeekSetPos(nm, arg) ==
    /\ FsCall
    /\ IsOpen(nm)
    /\ \E r \in { seekio_cntl_setpos(Handle(nm), sio_pos[nm], arg) } :
         /\ sio_pos' = [sio_pos EXCEPT ![nm] = r.pos]
         /\ seek_ret' = SeekRet("setpos", nm, r.err, 0)
         /\ ktfs_ret' = [NoFsRet EXCEPT !.op = "setpos", !.name = nm,
                                        !.pos = arg, !.err = r.err]
    /\ ktfs_shadow' = Snapshot(ktfs_disk)
    /\ ktfs_seq' = SeqBreak
    /\ UNCHANGED << ktfs_disk, inode_bitmap, open_files, ktfs_ext >>

\* ioctl(IOCTL_SETEND, len) on the endpoint of nm: seekio_cntl hands the
\* call to the backing endpoint and takes len as its end when that returns 0.
SeekSetEnd(nm, len) ==
    /\ KtfsSetEnd(nm, len)
    /\ seek_ret' = SeekRet("setend", nm, ktfs_ret'.err, 0)
    /\ UNCHANGED sio_pos

\* Buffer sizes given to ioread, positions given to SETPOS.
SeekBufsz == 0 .. MaxWriteLen
SeekArg == 0 .. MaxSeekArg

SeekNext ==
    \/ SeekCall /\ (\E v \in Volumes : ktfs_mount(v)) /\ UNCHANGED seekVars
    \/ SeekCall /\ \E nm \in Name : SeekOpen(nm)
    \/ SeekCall /\ \E nm \in Name, bufsz \in SeekBufsz : SeekRead(nm, bufsz)
    \/ SeekCall /\ \E nm \in Name, buf \in WriteBuf : SeekWrite(nm, buf)
    \/ SeekCall /\ \E nm \in Name, arg \in SeekArg : SeekSetPos(nm, arg)
    \/ SeekCall /\ \E nm \in Name, len \in ExtLen : SeekSetEnd(nm, len)

\* ---- properties of the seekable endpoint ----

\* The calls on an endpoint the property is about.
SeekOps == { "read", "write", "setpos", "setend" }

\* C27: on the seekable endpoint of an open file, after any calls of read,
\* write, SETPOS and SETEND, the position lies between 0 and the end, GETEND
\* on the endpoint equals GETEND on the backing file, a read or write that
\* returned n >= 0 moved the position by n, and a call that returned an error
\* left position and end as they were.
C27_SeekableEndpoint ==
    /\ \A nm \in Name :
         IsOpen(nm)
         => /\ 0 <= sio_pos[nm]
            /\ sio_pos[nm] <= seekio_cntl_getend(Handle(nm))
            /\ seekio_cntl_getend(Handle(nm)) = ktfs_cntl_getend(Handle(nm))
    /\ (seek_ret.op \in { "read", "write" } /\ seek_ret.err = "none")
       => sio_pos[seek_ret.name] = seek_ret.pos + seek_ret.val
    /\ (seek_ret.op \in SeekOps /\ seek_ret.err # "none")
       => /\ sio_pos[seek_ret.name] = seek_ret.pos
          /\ seekio_cntl_getend(Handle(seek_ret.name)) = seek_ret.end

\* ======================================================================
\* THE MEMORY-BACKED ENDPOINT (sys/io.c)
\* ======================================================================

MemioCap == 3           \* size of the block given to create_memory_io
MaxMemioCalls == 4      \* calls on the endpoint in one run
MemioPast == 2          \* bytes of memory behind the block that are followed

NoMioRet == [op |-> "none", err |-> "none", val |-> 0, arg |-> 0, size |-> 0,
             data |-> << >>, len |-> 0, calls |-> 0]

\* create_memory_io(buf, size) on a zeroed block of MemioCap bytes; mio_buf
\* also holds the MemioPast bytes of memory that follow the block.
MemioInit ==
    /\ mio_size = MemioCap
    /\ mio_buf = [k \in 0 .. (MemioCap + MemioPast - 1) |-> 0]
    /\ mio_ret = NoMioRet

\* What is kept of a call: the size before it is in size.
MioRet(op, err, val, arg, data) ==
    [op |-> op, err |-> err, val |-> val, arg |-> arg, size |-> mio_size,
     data |-> data, len |-> Len(data), calls |-> mio_ret.calls + 1]

\* memio_cntl(cmd, arg): the result and the size after the call.  The case of
\* IOCTL_SETEND has no break and runs on into default, which sets the result
\* to -EINVAL.
memio_cntl(size, cmd, arg) ==
    CASE cmd = "GETBLKSZ" -> [err |-> "none", val |-> 1, size |-> size]
      [] cmd = "GETEND" -> [err |-> "none", val |-> size, size |-> size]
      [] cmd = "SETEND" -> [err |-> "EINVAL", val |-> 0,
                            size |-> IF arg > size THEN size ELSE arg]
      [] OTHER -> [err |-> "EINVAL", val |-> 0, size |-> size]

\* memio_readat(pos, bufsz).
memio_readat(buf, size, pos, bufsz) ==
    IF bufsz = 0 THEN [err |-> "none", data |-> << >>]
    ELSE IF pos > size THEN [err |-> "EINVAL", data |-> << >>]
    ELSE LET n == IF pos + bufsz > size THEN size - pos ELSE bufsz
         IN  [err |-> "none", data |-> [k \in 1 .. n |-> buf[pos + k - 1]]]

\* The number of bytes memio_writeat copies: mio->size - len where the write
\* runs past the end.
memio_write_bytes(size, pos, len) ==
    IF pos + len > size THEN size - len ELSE len

\* memio_writeat(pos, buf): memcpy stores write_bytes bytes from mio->buf + pos
\* on, wherever that ends; over is what memory holds behind the caller's
\* len bytes, which memcpy reads when write_bytes is larger than len.
memio_writeat(buf, size, pos, src, over) ==
    IF Len(src) = 0 THEN [err |-> "none", val |-> 0, buf |-> buf]
    ELSE IF pos > size THEN [err |-> "EINVAL", val |-> 0, buf |-> buf]
    ELSE LET n == memio_write_bytes(size, pos, Len(src))
         IN  [err |-> "none", val |-> n,
              buf |-> [k \in DOMAIN buf |->
                         IF pos <= k /\ k < pos + n
                         THEN (src \o over)[k - pos + 1]
                         ELSE buf[k]]]

\* ioctl(cmd, arg) on the endpoint.
MemioCntl(cmd, arg) ==
    \E r \in { memio_cntl(mio_size, cmd, arg) } :
        /\ mio_size' = r.size
        /\ mio_ret' = MioRet(cmd, r.err, r.val, arg, << >>)
        /\ UNCHANGED mio_buf

\* ioreadat(pos, bufsz) on the endpoint.
MemioReadAt(pos, bufsz) ==
    \E r \in { memio_readat(mio_buf, mio_size, pos, bufsz) } :
        /\ mio_ret' = [MioRet("readat", r.err, Len(r.data), pos, r.data)
                          EXCEPT !.len = bufsz]
        /\ UNCHANGED << mio_size, mio_buf >>

\* iowriteat(pos, src) on the endpoint.
MemioWriteAt(pos, src) ==
    /\ \E over \in [1 .. MemioPast -> Byte] :
       \E r \in { memio_writeat(mio_buf, mio_size, pos, src, over) } :
        /\ mio_buf' = r.buf
        /\ mio_ret' = MioRet("writeat", r.err, r.val, pos, src)
        /\ UNCHANGED mio_size

MemioCall == mio_ret.calls < MaxMemioCalls /\ MemioFrame

MemioCmd == { "GETBLKSZ", "GETEND", "SETEND", "GETPOS" }
MemioArg == 0 .. (MemioCap + 1)

MemioNext ==
    \/ MemioCall /\ \E cmd \in MemioCmd, arg \in MemioArg : MemioCntl(cmd, arg)
    \/ MemioCall /\ \E pos \in MemioArg, bufsz \in 0 .. MemioCap :
                       MemioReadAt(pos, bufsz)
    \/ MemioCall /\ \E pos \in MemioArg, src \in Buffers : MemioWriteAt(pos, src)

\* ---- properties of the memory-backed endpoint ----

\* C28: SETEND with a value up to the current size sets the size to it and
\* returns 0; SETEND with a larger value returns EINVAL and leaves the size
\* as it was; GETEND reports the current size; the status of SETEND is 0
\* exactly when the size was set.
C28_MemioSetEnd ==
    /\ (mio_ret.op = "SETEND" /\ mio_ret.arg <= mio_ret.size)
       => (mio_size = mio_ret.arg /\ mio_ret.err = "none")
    /\ (mio_ret.op = "SETEND" /\ mio_ret.arg > mio_ret.size)
       => (mio_size = mio_ret.size /\ mio_ret.err = "EINVAL")
    /\ (mio_ret.op = "GETEND")
       => (mio_ret.err = "none" /\ mio_ret.val = mio_size)

\* C33: readat and writeat at pos with length len transfer min(len, size - pos)
\* bytes when pos <= size, fail with EINVAL and transfer nothing when
\* pos > size, and no byte behind the block is ever written.
C33_MemioTransfersExact ==
    /\ (mio_ret.op \in { "readat", "writeat" })
       => IF mio_ret.arg > mio_ret.size
          THEN mio_ret.err = "EINVAL" /\ mio_ret.val = 0
          ELSE /\ mio_ret.err = "none"
               /\ mio_ret.val = IF mio_ret.len < mio_ret.size - mio_ret.arg
                                THEN mio_ret.len
                                ELSE mio_ret.size - mio_ret.arg
    /\ \A k \in MemioCap .. (MemioCap + MemioPast - 1) : mio_buf[k] = 0

\* The step is a call of fscreate or of ioctl(SETEND) that fails with
\* ENODATABLKS.
FailsForBlocks ==
    /\ ktfs_calls' = ktfs_calls + 1
    /\ ktfs_ret'.op \in { "create", "setend" }
    /\ ktfs_ret'.err = "ENODATABLKS"

\* C37: a create or SETEND fails with ENODATABLKS only when every bit of the
\* data bitmap is set (bit 0 included), and the failed call leaves the bitmap
\* as it was.
C37_AllocationExact ==
    [][FailsForBlocks
       => /\ \A b \in DBlk : ktfs_disk.bitmap[b] = 1
          /\ ktfs_disk'.bitmap = ktfs_disk.bitmap]_vars

\* ======================================================================
\* THE RECORDS OF THE OPEN FILES (sys/ktfs.c)
\* ======================================================================

MaxHandles == 3         \* records ktfs_open allocates in one run
MaxHandleCalls == 5     \* opens, closes and reads in one run

Hd == 1 .. MaxHandles

NoHdRet == [op |-> "none", h |-> NULL, err |-> "none", freed |-> NULL]

HandleInit ==
    /\ hd_list = << >>
    /\ hd_st = [h \in Hd |-> "none"]
    /\ hd_name = [h \in Hd |-> 0]
    /\ hd_closed = [h \in Hd |-> FALSE]
    /\ hd_uaf = {}
    /\ hd_ret = NoHdRet
    /\ hd_calls = 0

HandleCall ==
    /\ ktfs_calls > 0
    /\ hd_calls < MaxHandleCalls
    /\ hd_calls' = hd_calls + 1
    /\ HandleFrame

\* insert_file_to_list: the record becomes the head of the list.
insert_file_to_list(list, h) == << h >> \o list

\* delete_file_from_list(name) on the list: the first record whose entry.name
\* is the name is unlinked and given to kfree; the result is the list and that
\* record (NULL when no record has the name).
delete_record_from_list(list, names, nm) ==
    LET hits == { k \in 1 .. Len(list) : names[list[k]] = nm }
    IN  IF hits = {} THEN [list |-> list, freed |-> NULL]
        ELSE LET k == CHOOSE x \in hits : \A y \in hits : x <= y
             IN  [list  |-> SubSeq(list, 1, k - 1) \o SubSeq(list, k + 1, Len(list)),
                  freed |-> list[k]]

\* ktfs_open(nm): kcalloc gives a record that was not handed out before, the
\* directory is scanned for the name, and a record whose name was found is
\* put on the list.
HdOpen(nm) ==
    /\ \E h \in Hd :
        /\ hd_st[h] = "none"
        /\ \A g \in Hd : hd_st[g] = "none" => h <= g
        /\ IF OpenScan(ktfs_disk, nm) = -1
           THEN /\ hd_ret' = [NoHdRet EXCEPT !.op = "open", !.err = "ENOENT"]
                /\ UNCHANGED << hd_list, hd_st, hd_name >>
           ELSE /\ hd_list' = insert_file_to_list(hd_list, h)
                /\ hd_st' = [hd_st EXCEPT ![h] = "open"]
                /\ hd_name' = [hd_name EXCEPT ![h] = nm]
                /\ hd_ret' = [NoHdRet EXCEPT !.op = "open", !.h = h]
    /\ UNCHANGED << hd_closed, hd_uaf >>

\* The endpoints the caller holds: those of the records it opened and has not
\* closed.
Held(h) == hd_st[h] # "none" /\ ~ hd_closed[h]

\* ktfs_close on the endpoint of record h: the name is read from the record
\* (a record that was freed holds whatever the allocator left in it) and
\* delete_file_from_list frees the first record on the list with that name.
HdClose(h) ==
    /\ Held(h)
    /\ \E nm \in (IF hd_st[h] = "freed" THEN 0 .. NumNames ELSE { hd_name[h] }) :
       \E r \in { delete_record_from_list(hd_list, hd_name, nm) } :
         /\ hd_list' = r.list
         /\ hd_st' = IF r.freed = NULL THEN hd_st
                     ELSE [hd_st EXCEPT ![r.freed] = "freed"]
         /\ hd_ret' = [NoHdRet EXCEPT !.op = "close", !.h = h, !.freed = r.freed]
    /\ hd_closed' = [hd_closed EXCEPT ![h] = TRUE]
    /\ hd_uaf' = IF hd_st[h] = "freed" THEN hd_uaf \cup { h } ELSE hd_uaf
    /\ UNCHANGED hd_name

\* ktfs_readat on the endpoint of record h: the record's entry and file_size
\* are read.
HdRead(h) ==
    /\ Held(h)
    /\ hd_uaf' = IF hd_st[h] = "freed" THEN hd_uaf \cup { h } ELSE hd_uaf
    /\ hd_ret' = [NoHdRet EXCEPT !.op = "read", !.h = h]
    /\ UNCHANGED << hd_list, hd_st, hd_name, hd_closed >>

HandleNext ==
    \/ (\E v \in Volumes : ktfs_mount(v)) /\ KtfsFrame
    \/ HandleCall /\ \E nm \in Name : HdOpen(nm)
    \/ HandleCall /\ \E h \in Hd : HdClose(h)
    \/ HandleCall /\ \E h \in Hd : HdRead(h)

\* ---- properties of the records of the open files ----

\* C36: closing an endpoint unlinks and frees the record of that endpoint
\* only: a record whose endpoint the caller still holds is on the open-file
\* list and not freed, a record whose endpoint was closed is off the list and
\* freed, and no record is used after it was freed.
C36_CloseFreesOwnRecord ==
    /\ hd_uaf = {}
    /\ \A h \in Hd :
         hd_st[h] # "none"
         => IF hd_closed[h]
            THEN hd_st[h] = "freed" /\ \A k \in DOMAIN hd_list : hd_list[k] # h
            ELSE hd_st[h] = "open" /\ \E k \in DOMAIN hd_list : hd_list[k] = h

\* ======================================================================
\* THE DESCRIPTOR TABLES AND THE REFERENCE COUNTS (sys/process.c, sys/syscall.c)
\* ======================================================================

MaxFdCalls == 5         \* system calls in one run

\* The main process and one child.
FdProc == { 0, 1 }

NoFdRet == [op |-> "none", proc |-> 0, err |-> "none", val |-> 0, over |-> {}]

FdInit ==
    /\ fd_tab = [p \in FdProc |-> [fd \in Fd |-> NULL]]
    /\ fd_live = [p \in FdProc |-> FALSE]
    /\ fd_ret = NoFdRet
    /\ fd_calls = 0

\* A system call of the live process p.
FdCall(p) ==
    /\ io_st = "run"
    /\ fd_live[p]
    /\ fd_calls < MaxFdCalls
    /\ fd_calls' = fd_calls + 1
    /\ UNCHANGED io_calls

\* The loop "for (fd = 0; fd < PROCESS_IOMAX; fd++) if (iotab[fd] == NULL)
\* break;" with the slot skip left out: the first empty slot, PROCESS_IOMAX
\* when there is none.
FdFirstFree(tab, skip) ==
    LET free == { fd \in Fd : fd # skip /\ tab[fd] = NULL }
    IN  IF free = {} THEN PROCESS_IOMAX
        ELSE CHOOSE x \in free : \A y \in free : x <= y

\* The objects a store into the slots fds pushes out of the table: the call
\* makes no ioclose on them.
Overwritten(tab, fds) == { tab[fd] : fd \in fds } \ { NULL }

\* An object that was not handed out yet, the lowest one.
FreshIo(st, not) ==
    LET free == { o \in IoObj : st.kind[o] = "none" /\ o # not }
    IN  IF free = {} THEN NULL ELSE CHOOSE x \in free : \A y \in free : x <= y

FdErr(op, p, err) ==
    /\ fd_ret' = [NoFdRet EXCEPT !.op = op, !.proc = p, !.err = err]
    /\ UNCHANGED << fd_tab, fd_live, ioVars >>

\* procmgr_init: the main process gets the null endpoint at descriptor 0.
procmgr_init ==
    /\ ~ fd_live[0]
    /\ fd_calls = 0
    /\ io_kind[1] = "none"
    /\ IoDone(ioinit1(IoState, 1, "null"), io_held)
    /\ fd_tab' = [fd_tab EXCEPT ![0][0] = 1]
    /\ fd_live' = [fd_live EXCEPT ![0] = TRUE]
    /\ fd_ret' = [NoFdRet EXCEPT !.op = "init"]
    /\ UNCHANGED << fd_calls, io_calls >>

\* sysfsopen(fd, name) by process p for a name that exists: fsopen stores the
\* seekable endpoint ktfs_open makes into iotab[fd].
FdFsopen(p, fd) ==
    /\ FdCall(p)
    /\ LET nfd == IF fd < 0 THEN FdFirstFree(fd_tab[p], -1) ELSE fd
           b == FreshIo(IoState, NULL)
           w == FreshIo(IoState, b)
       IN  IF fd >= PROCESS_IOMAX THEN FdErr("fsopen", p, "EBADFD")
           ELSE IF nfd >= PROCESS_IOMAX THEN FdErr("fsopen", p, "EMFILE")
           ELSE /\ b # NULL
                /\ w # NULL
                /\ IoDone(create_seekable_io(ioinit1(IoState, b, "file"), w, b),
                          io_held)
                /\ fd_tab' = [fd_tab EXCEPT ![p][nfd] = w]
                /\ fd_ret' = [NoFdRet EXCEPT !.op = "fsopen", !.proc = p, !.val = nfd,
                                             !.over = Overwritten(fd_tab[p], { nfd })]
                /\ UNCHANGED fd_live

\* syspipe(wfdptr, rfdptr) by process p with *wfdptr = wfd0 and *rfdptr = rfd0.
FdPipe(p, wfd0, rfd0) ==
    /\ FdCall(p)
    /\ LET wfd == IF wfd0 < 0 THEN FdFirstFree(fd_tab[p], -1) ELSE wfd0
           rfd == IF rfd0 < 0 THEN FdFirstFree(fd_tab[p], wfd) ELSE rfd0
           wio == FreshIo(IoState, NULL)
           rio == FreshIo(IoState, wio)
       IN  IF wfd0 >= PROCESS_IOMAX \/ rfd0 >= PROCESS_IOMAX
           THEN FdErr("pipe", p, "EBADFD")
           ELSE IF wfd = PROCESS_IOMAX \/ rfd = PROCESS_IOMAX
           THEN FdErr("pipe", p, "EMFILE")
           ELSE IF wfd = rfd THEN FdErr("pipe", p, "EINVAL")
           ELSE /\ wio # NULL
                /\ rio # NULL
                /\ IoDone(ioinit1(ioinit1(IoState, wio, "pipe"), rio, "pipe"), io_held)
                /\ fd_tab' = [fd_tab EXCEPT ![p][wfd] = wio, ![p][rfd] = rio]
                /\ fd_ret' = [NoFdRet EXCEPT !.op = "pipe", !.proc = p,
                                !.over = Overwritten(fd_tab[p], { wfd, rfd })]
                /\ UNCHANGED fd_live

\* sysiodup(oldfd, newfd) by process p, for oldfd inside the table.
FdIodup(p, oldfd, newfd) ==
    /\ FdCall(p)
    /\ LET nfd == IF newfd < 0 THEN FdFirstFree(fd_tab[p], -1) ELSE newfd
       IN  IF fd_tab[p][oldfd] = NULL THEN FdErr("iodup", p, "EMFILE")
           ELSE IF newfd >= PROCESS_IOMAX THEN FdErr("iodup", p, "EBADFD")
           ELSE IF nfd >= PROCESS_IOMAX THEN FdErr("iodup", p, "EMFILE")
           ELSE /\ IoDone(ioaddref_refcnt(IoState, fd_tab[p][oldfd]), io_held)
                /\ fd_tab' = [fd_tab EXCEPT ![p][nfd] = fd_tab[p][oldfd]]
                /\ fd_ret' = [NoFdRet EXCEPT !.op = "iodup", !.proc = p, !.val = nfd,
                                             !.over = Overwritten(fd_tab[p], { nfd })]
                /\ UNCHANGED fd_live

\* sysclose(fd) by process p.
FdClose(p, fd) ==
    /\ FdCall(p)
    /\ IF fd < 0 \/ fd >= PROCESS_IOMAX THEN FdErr("close", p, "EBADFD")
       ELSE IF fd_tab[p][fd] = NULL THEN FdErr("close", p, "EBADFD")
       ELSE /\ IoDone(ioclose_refcnt(IoState, fd_tab[p][fd]), io_held)
            /\ fd_tab' = [fd_tab EXCEPT ![p][fd] = NULL]
            /\ fd_ret' = [NoFdRet EXCEPT !.op = "close", !.proc = p]
            /\ UNCHANGED fd_live

\* The loop of process_fork over the parent's table: ioaddref on every object
\* it holds.
RECURSIVE ForkRefs(_, _, _)
ForkRefs(st, tab, fd) ==
    IF fd >= PROCESS_IOMAX THEN st
    ELSE ForkRefs(IF tab[fd] # NULL THEN ioaddref_refcnt(st, tab[fd]) ELSE st,
                  tab, fd + 1)

\* process_fork by the main process: the child's table, zeroed by kcalloc,
\* gets the parent's objects.
FdFork ==
    /\ FdCall(0)
    /\ ~ fd_live[1]
    /\ IoDone(ForkRefs(IoState, fd_tab[0], 0), io_held)
    /\ fd_tab' = [fd_tab EXCEPT ![1] = fd_tab[0]]
    /\ fd_live' = [fd_live EXCEPT ![1] = TRUE]
    /\ fd_ret' = [NoFdRet EXCEPT !.op = "fork", !.proc = 0, !.val = 1]

\* The loop of process_exit over the table: ioclose on every object in it.
RECURSIVE ExitCloses(_, _, _)
ExitCloses(st, tab, fd) ==
    IF fd >= PROCESS_IOMAX THEN st
    ELSE ExitCloses(IF tab[fd] # NULL THEN ioclose_refcnt(st, tab[fd]) ELSE st,
                    tab, fd + 1)

\* process_exit by the child: its objects are closed and the process is
\* freed.
FdExit ==
    /\ FdCall(1)
    /\ IoDone(ExitCloses(IoState, fd_tab[1], 0), io_held)
    /\ fd_tab' = [fd_tab EXCEPT ![1] = [fd \in Fd |-> NULL]]
    /\ fd_live' = [fd_live EXCEPT ![1] = FALSE]
    /\ fd_ret' = [NoFdRet EXCEPT !.op = "exit", !.proc = 1]

FdNext ==
    \/ procmgr_init /\ FdFrame
    \/ (\E p \in FdProc, fd \in SysFd : FdFsopen(p, fd)) /\ FdFrame
    \/ (\E p \in FdProc, wfd0 \in SysFd, rfd0 \in SysFd : FdPipe(p, wfd0, rfd0)) /\ FdFrame
    \/ (\E p \in FdProc, oldfd \in Fd, newfd \in SysFd : FdIodup(p, oldfd, newfd))
       /\ FdFrame
    \/ (\E p \in FdProc, fd \in SysFd : FdClose(p, fd)) /\ FdFrame
    \/ FdFork /\ FdFrame
    \/ FdExit /\ FdFrame

\* ---- properties of the descriptor tables ----

\* The descriptor slots of the live processes that point to the object.
SlotsOf(o) == { << p, fd >> \in FdProc \X Fd : fd_live[p] /\ fd_tab[p][fd] = o }

\* C39: the reference count of every I/O object is at least the number of
\* descriptor slots of live processes that point to it, no slot points to an
\* object whose close function has run, and no system call stores into an
\* occupied slot without closing the object the slot held.
C39_SlotsHoldReferences ==
    /\ \A o \in IoObj :
         /\ io_refcnt[o] >= Cardinality(SlotsOf(o))
         /\ SlotsOf(o) # {} => io_log[o].ran = 0
    /\ fd_ret.over = {}

\* ======================================================================
\* SPECIFICATIONS
\* ======================================================================

Init ==
    /\ ThreadInit /\ CacheInit /\ KtfsInit /\ PipeInit /\ MemInit /\ SysInit
    /\ IoInit /\ ProcInit /\ TimerInit /\ CacheIoInit /\ SeekInit /\ MemioInit
    /\ SchedInit /\ HandleInit /\ FdInit

SpecThread == Init /\ [][ThreadNext]_vars

SpecCoop == Init /\ [][CoopNext]_vars

SpecSched == Init /\ [][SchedNext]_vars

SpecLock == Init /\ [][LockNext]_vars

SpecHandles == Init /\ [][HandleNext]_vars

SpecFd == Init /\ [][FdNext]_vars

SpecDeep == Init /\ [][DeepNext]_vars

SpecExit == Init /\ [][ExitNext]_vars

SpecCache == Init /\ [][CacheNext]_vars
SpecCacheThr == Init /\ [][CacheThrNext]_vars
SpecCacheCoop == Init /\ [][CacheCoopNext]_vars
SpecCacheRace == Init /\ [][CacheRaceNext]_vars

SpecKtfs == Init /\ [][KtfsNext]_vars

SpecPipe == Init /\ [][PipeNext]_vars

SpecPages == Init /\ [][PagesNext]_vars

SpecMspace == Init /\ [][MspaceNext]_vars
SpecReset == Init /\ [][ResetNext]_vars
SpecDiscard == Init /\ [][DiscardNext]_vars

SpecValidate == Init /\ [][ValidateNext]_vars

SpecSys == Init /\ [][SysNext]_vars

SpecIo == Init /\ [][IoNext]_vars

SpecProc == Init /\ [][ProcNext]_vars

SpecFork == Init /\ [][ForkNext]_vars /\ ForkFairness

SpecCacheIo == Init /\ [][CacheIoNext]_vars

SpecSeek == Init /\ [][SeekNext]_vars

SpecMemio == Init /\ [][MemioNext]_vars

SpecTimer == Init /\ [][TimerNext]_vars /\ TimerFairness

====
